---- MODULE Spec2Model ----
(***************************************************************************)
(* State-machine model of the renewable-viz data layer:                    *)
(*   - the pagination engine EIAAtlasClient.get_power_plants with the      *)
(*     feature server it talks to (Spec, FairSpec, ConcSpec);              *)
(*   - the energy classifier PowerPlant.primary_energy_type (ClassifySpec);*)
(*   - the feature parser _parse_feature_to_power_plant (ParseSpec,        *)
(*     NullParseSpec);                                                     *)
(*   - the filtered queries get_plants_by_energy_type, get_plants_by_state *)
(*     and get_renewable_plants (RouteSpec);                               *)
(*   - the export scripts' removal of duplicates (ExportSpec);             *)
(*   - DataAggregator.calculate_renewable_percentage (PercentageSpec) and  *)
(*     PowerPlantFilter.filter_by_capacity_range (CapacitySpec).           *)
(***************************************************************************)
EXTENDS Integers, Sequences, FiniteSets, TLC

(***************************************************************************)
(* Bounds of the model.                                                    *)
(***************************************************************************)
\* largest "small" dataset the honest server holds
MaxN == 3
\* largest "small" transfer limit of the honest server
MaxM == 2
\* largest result_record_count a caller puts in PowerPlantQueryParams
MaxPage == 2
\* largest limit argument
MaxLimit == 3
\* longest page an arbitrary server returns
MaxAdvLen == 3
\* most page requests one call is followed through
MaxReq == 3

(***************************************************************************)
(* Python values.                                                          *)
(***************************************************************************)
\* Optional[int] fields and arguments: None is kept apart from every int >= 0
None == -1

\* `if x:` / `x or d` on an Optional[int]
Truthy(x) == x # None /\ x # 0

\* the empty dict {}
EmptyDict == << >>

\* dict.get(k, default)
Get(d, k, default) == IF k \in DOMAIN d THEN d[k] ELSE default

\* d[k] = v on a dict
DictSet(d, k, v) == [x \in (DOMAIN d) \cup {k} |-> IF x = k THEN v ELSE d[x]]

(***************************************************************************)
(* models.py: PowerPlantQueryParams and EIAAtlasResponse.                  *)
(***************************************************************************)
\* PowerPlantQueryParams(): the fields the pagination engine reads or writes
NewQueryParams ==
    [where_clause |-> "1=1", result_record_count |-> None, result_offset |-> None]

\* PowerPlantQueryParams.to_dict: optional keys are present only when set
ToDict(q) ==
    [k \in {"where"}
           \cup (IF q.result_record_count # None THEN {"resultRecordCount"} ELSE {})
           \cup (IF q.result_offset # None THEN {"resultOffset"} ELSE {})
     |-> CASE k = "where" -> q.where_clause
           [] k = "resultRecordCount" -> q.result_record_count
           [] k = "resultOffset" -> q.result_offset]

\* EIAAtlasResponse.from_dict: absent sections take their defaults
FromDict(data) ==
    [features |-> Get(data, "features", << >>),
     exceeded_transfer_limit |-> Get(data, "exceededTransferLimit", FALSE)]

(***************************************************************************)
(* models.py: EnergyType and PowerPlant.primary_energy_type.  A Python str *)
(* is the sequence of its characters.                                      *)
(***************************************************************************)
\* class EnergyType: member name -> value (the canonical label)
EnergyType ==
    ("COAL" :> << "C", "o", "a", "l" >>)
    @@ ("NATURAL_GAS" :> << "N", "a", "t", "u", "r", "a", "l", " ", "G", "a", "s" >>)
    @@ ("NUCLEAR" :> << "N", "u", "c", "l", "e", "a", "r" >>)
    @@ ("HYDRO" :> << "H", "y", "d", "r", "o", "e", "l", "e", "c", "t", "r", "i", "c" >>)
    @@ ("HYDRO_PUMPED" :> << "H", "y", "d", "r", "o", " ", "P", "u", "m", "p", "e", "d", " ", "S", "t", "o", "r", "a", "g", "e" >>)
    @@ ("SOLAR" :> << "S", "o", "l", "a", "r" >>)
    @@ ("WIND" :> << "W", "i", "n", "d" >>)
    @@ ("GEOTHERMAL" :> << "G", "e", "o", "t", "h", "e", "r", "m", "a", "l" >>)
    @@ ("BIOMASS" :> << "B", "i", "o", "m", "a", "s", "s" >>)
    @@ ("BATTERY" :> << "B", "a", "t", "t", "e", "r", "y", " ", "S", "t", "o", "r", "a", "g", "e" >>)
    @@ ("OTHER" :> << "O", "t", "h", "e", "r" >>)
    @@ ("CRUDE_OIL" :> << "C", "r", "u", "d", "e", " ", "O", "i", "l" >>)

\* the upper-case and lower-case ASCII letters, in step
UpperLetters == << "A", "B", "C", "D", "E", "F", "G", "H", "I", "J", "K", "L", "M", "N", "O", "P", "Q", "R", "S", "T", "U", "V", "W", "X", "Y", "Z" >>

LowerLetters == << "a", "b", "c", "d", "e", "f", "g", "h", "i", "j", "k", "l", "m", "n", "o", "p", "q", "r", "s", "t", "u", "v", "w", "x", "y", "z" >>

\* str.lower on one character
LowerOf(ch) ==
    IF \E i \in 1..26 : UpperLetters[i] = ch
    THEN LowerLetters[CHOOSE i \in 1..26 : UpperLetters[i] = ch]
    ELSE ch

\* faulty variant of StrLower: the string is compared as written
StrLower_AsWritten(str) == str

\* str.lower
StrLower(str) == [i \in 1..Len(str) |-> LowerOf(str[i])]

\* `key in source_lower` on two strs
Contains(key, str) ==
    \E i \in 0..(Len(str) - Len(key)) : SubSeq(str, i + 1, i + Len(key)) = key

\* faulty variant of SourceMapping: pumped storage is given an entry of its
\* own ahead of 'hydro'
SourceMapping_PumpedFirst ==
    <<
      [key |-> << "c", "o", "a", "l" >>, type |-> "COAL"],
      [key |-> << "n", "a", "t", "u", "r", "a", "l", " ", "g", "a", "s" >>, type |-> "NATURAL_GAS"],
      [key |-> << "n", "u", "c", "l", "e", "a", "r" >>, type |-> "NUCLEAR"],
      [key |-> << "h", "y", "d", "r", "o", " ", "p", "u", "m", "p", "e", "d" >>, type |-> "HYDRO_PUMPED"],
      [key |-> << "h", "y", "d", "r", "o" >>, type |-> "HYDRO"],
      [key |-> << "h", "y", "d", "r", "o", "e", "l", "e", "c", "t", "r", "i", "c" >>, type |-> "HYDRO"],
      [key |-> << "s", "o", "l", "a", "r" >>, type |-> "SOLAR"],
      [key |-> << "w", "i", "n", "d" >>, type |-> "WIND"],
      [key |-> << "g", "e", "o", "t", "h", "e", "r", "m", "a", "l" >>, type |-> "GEOTHERMAL"],
      [key |-> << "b", "i", "o", "m", "a", "s", "s" >>, type |-> "BIOMASS"],
      [key |-> << "b", "a", "t", "t", "e", "r", "i", "e", "s" >>, type |-> "BATTERY"],
      [key |-> << "b", "a", "t", "t", "e", "r", "y" >>, type |-> "BATTERY"],
      [key |-> << "c", "r", "u", "d", "e", " ", "o", "i", "l" >>, type |-> "CRUDE_OIL"],
      [key |-> << "p", "e", "t", "r", "o", "l", "e", "u", "m" >>, type |-> "CRUDE_OIL"]
    >>

\* faulty variant of SourceMapping: the 'battery' entry is left out
SourceMapping_NoBattery ==
    <<
      [key |-> << "c", "o", "a", "l" >>, type |-> "COAL"],
      [key |-> << "n", "a", "t", "u", "r", "a", "l", " ", "g", "a", "s" >>, type |-> "NATURAL_GAS"],
      [key |-> << "n", "u", "c", "l", "e", "a", "r" >>, type |-> "NUCLEAR"],
      [key |-> << "h", "y", "d", "r", "o" >>, type |-> "HYDRO"],
      [key |-> << "h", "y", "d", "r", "o", "e", "l", "e", "c", "t", "r", "i", "c" >>, type |-> "HYDRO"],
      [key |-> << "s", "o", "l", "a", "r" >>, type |-> "SOLAR"],
      [key |-> << "w", "i", "n", "d" >>, type |-> "WIND"],
      [key |-> << "g", "e", "o", "t", "h", "e", "r", "m", "a", "l" >>, type |-> "GEOTHERMAL"],
      [key |-> << "b", "i", "o", "m", "a", "s", "s" >>, type |-> "BIOMASS"],
      [key |-> << "b", "a", "t", "t", "e", "r", "i", "e", "s" >>, type |-> "BATTERY"],
      [key |-> << "c", "r", "u", "d", "e", " ", "o", "i", "l" >>, type |-> "CRUDE_OIL"],
      [key |-> << "p", "e", "t", "r", "o", "l", "e", "u", "m" >>, type |-> "CRUDE_OIL"]
    >>

\* source_mapping, in the order the dict is written and iterated
SourceMapping ==
    <<
      [key |-> << "c", "o", "a", "l" >>, type |-> "COAL"],
      [key |-> << "n", "a", "t", "u", "r", "a", "l", " ", "g", "a", "s" >>, type |-> "NATURAL_GAS"],
      [key |-> << "n", "u", "c", "l", "e", "a", "r" >>, type |-> "NUCLEAR"],
      [key |-> << "h", "y", "d", "r", "o" >>, type |-> "HYDRO"],
      [key |-> << "h", "y", "d", "r", "o", "e", "l", "e", "c", "t", "r", "i", "c" >>, type |-> "HYDRO"],
      [key |-> << "s", "o", "l", "a", "r" >>, type |-> "SOLAR"],
      [key |-> << "w", "i", "n", "d" >>, type |-> "WIND"],
      [key |-> << "g", "e", "o", "t", "h", "e", "r", "m", "a", "l" >>, type |-> "GEOTHERMAL"],
      [key |-> << "b", "i", "o", "m", "a", "s", "s" >>, type |-> "BIOMASS"],
      [key |-> << "b", "a", "t", "t", "e", "r", "i", "e", "s" >>, type |-> "BATTERY"],
      [key |-> << "b", "a", "t", "t", "e", "r", "y" >>, type |-> "BATTERY"],
      [key |-> << "c", "r", "u", "d", "e", " ", "o", "i", "l" >>, type |-> "CRUDE_OIL"],
      [key |-> << "p", "e", "t", "r", "o", "l", "e", "u", "m" >>, type |-> "CRUDE_OIL"]
    >>

RECURSIVE ClassifyFrom(_, _)
\* the for loop over source_mapping.items() from entry i on: the first key
\* found in source_lower decides, EnergyType.OTHER when none is
ClassifyFrom(i, source_lower) ==
    IF i > Len(SourceMapping) THEN "OTHER"
    ELSE IF Contains(SourceMapping[i].key, source_lower) THEN SourceMapping[i].type
    ELSE ClassifyFrom(i + 1, source_lower)

\* PowerPlant.primary_energy_type
PrimaryEnergyType(source) == ClassifyFrom(1, StrLower(source))

\* PowerPlant.is_renewable
IsRenewable(source) ==
    PrimaryEnergyType(source) \in {"SOLAR", "WIND", "HYDRO", "GEOTHERMAL", "BIOMASS"}

(***************************************************************************)
(* eia_atlas_client.py: the client.                                        *)
(***************************************************************************)
\* EIAAtlasClient.SERVICES
SERVICES ==
    [s \in {"all_plants", "coal_plants", "natural_gas_plants", "nuclear_plants",
            "hydro_plants", "hydro_pumped_plants", "solar_plants", "wind_plants",
            "geothermal_plants", "battery_plants", "petroleum_plants",
            "other_plants"}
     |-> CASE s = "all_plants" -> "ElectricPowerPlants/FeatureServer/0"
           [] s = "coal_plants" -> "Coal_Power_Plants/FeatureServer/0"
           [] s = "natural_gas_plants" -> "Natural_Gas_Power_Plants/FeatureServer/0"
           [] s = "nuclear_plants" -> "Nuclear_Power_Plants/FeatureServer/0"
           [] s = "hydro_plants" -> "Hydroelectric_Power_Plants/FeatureServer/0"
           [] s = "hydro_pumped_plants" -> "Hydro_Pumped_Storage_Power_Plants/FeatureServer/0"
           [] s = "solar_plants" -> "Solar_Power_Plants/FeatureServer/0"
           [] s = "wind_plants" -> "Wind_Power_Plants/FeatureServer/0"
           [] s = "geothermal_plants" -> "Geothermal_Power_Plants/FeatureServer/0"
           [] s = "battery_plants" -> "Battery_Storage_Plants/FeatureServer/0"
           [] s = "petroleum_plants" -> "Petroleum_Power_Plants/FeatureServer/0"
           [] s = "other_plants" -> "Other_Power_Plants/FeatureServer/0"]

\* EIAAtlasClient.BASE_URL
BASE_URL == "https://services7.arcgis.com/FGr1D95XCGALKXqM/ArcGIS/rest/services"

\* _build_url: f"{self.BASE_URL}/{service_path}/query", kept as its three parts
BuildUrl(service_path) == << BASE_URL, service_path, "query" >>

\* faulty variant of ServiceKnown: the membership test is dropped
ServiceKnown_Any(s) == TRUE

\* `service not in self.SERVICES`, negated
ServiceKnown(s) == s \in DOMAIN SERVICES

\* the default page size of `query_params.result_record_count or 1000`
DefaultBatch == 1000

\* batch_size = query_params.result_record_count or 1000
BatchSize(q) ==
    IF Truthy(q.result_record_count) THEN q.result_record_count ELSE DefaultBatch

\* faulty variant of CurrentParams: a resultOffset that to_dict gave is kept
CurrentParams_KeepsOffset(p, off, batch) ==
    LET cp == IF "resultOffset" \in DOMAIN p THEN p ELSE DictSet(p, "resultOffset", off)
    IN  IF "resultRecordCount" \in DOMAIN cp THEN cp
        ELSE DictSet(cp, "resultRecordCount", batch)

\* the parameters of one page request: the loop's offset always, the batch
\* size only when to_dict gave no resultRecordCount
CurrentParams(p, off, batch) ==
    LET cp == DictSet(p, "resultOffset", off)
    IN  IF "resultRecordCount" \in DOMAIN cp THEN cp
        ELSE DictSet(cp, "resultRecordCount", batch)

\* The values of a feature's attributes are JSON numbers and JSON strs.  A
\* number is held as itself; a str is held as a number from StrBase on, with
\* the empty str '' first, so that a str is never equal to a number or to None.
StrBase == 100

EmptyStr == StrBase

\* the strs a feature can hold, in the order of their numbers from StrBase
StrTable ==
    << << >>, EnergyType["SOLAR"], EnergyType["COAL"], EnergyType["BIOMASS"],
       EnergyType["HYDRO_PUMPED"], EnergyType["OTHER"], EnergyType["WIND"] >>

\* the characters of the str held as number v
StrOf(v) == StrTable[v - StrBase + 1]

\* faulty variant of Coordinate: the attribute value is preferred
Coordinate_AttrsFirst(geom, attrs, gkey, akey) ==
    Get(attrs, akey, Get(geom, gkey, 0))

\* geom.get('y', attrs.get('Latitude', 0.0)), and the same for x and Longitude
Coordinate(geom, attrs, gkey, akey) ==
    Get(geom, gkey, Get(attrs, akey, 0))

\* attrs.get(key): None when the key is missing
Optional(attrs, key) == Get(attrs, key, None)

\* PowerPlantLocation(...) as _parse_feature_to_power_plant builds it
ParseLocation(attrs, geom) ==
    [latitude       |-> Coordinate(geom, attrs, "y", "Latitude"),
     longitude      |-> Coordinate(geom, attrs, "x", "Longitude"),
     city           |-> Get(attrs, "City", EmptyStr),
     county         |-> Get(attrs, "County", EmptyStr),
     state          |-> Get(attrs, "StateName", EmptyStr),
     zip_code       |-> Optional(attrs, "Zip"),
     street_address |-> Optional(attrs, "Street_Address")]

\* PowerPlantCapacity(...) as _parse_feature_to_power_plant builds it
ParseCapacity(attrs) ==
    [total_mw        |-> Optional(attrs, "Total_MW"),
     install_mw      |-> Optional(attrs, "Install_MW"),
     coal_mw         |-> Optional(attrs, "Coal_MW"),
     natural_gas_mw  |-> Optional(attrs, "NG_MW"),
     nuclear_mw      |-> Optional(attrs, "Nuclear_MW"),
     hydro_mw        |-> Optional(attrs, "Hydro_MW"),
     hydro_pumped_mw |-> Optional(attrs, "HydroPS_MW"),
     solar_mw        |-> Optional(attrs, "Solar_MW"),
     wind_mw         |-> Optional(attrs, "Wind_MW"),
     geothermal_mw   |-> Optional(attrs, "Geo_MW"),
     biomass_mw      |-> Optional(attrs, "Bio_MW"),
     battery_mw      |-> Optional(attrs, "Bat_MW"),
     crude_oil_mw    |-> Optional(attrs, "Crude_MW"),
     other_mw        |-> Optional(attrs, "Other_MW")]

\* a JSON null where a dict is expected ('attributes': null), held in the
\* shape of a dict so that it can be told from one
NullDict == [null |-> TRUE]

IsNull(d) == DOMAIN d = {"null"}

\* _parse_feature_to_power_plant; attrs.get or geom.get on None raises
\* AttributeError
ParseFeature(feature) ==
    LET attrs == Get(feature, "attributes", EmptyDict)
        geom  == Get(feature, "geometry", EmptyDict)
    IN  IF IsNull(attrs) \/ IsNull(geom) THEN [raised |-> "AttributeError"] ELSE
        [object_id      |-> Get(attrs, "OBJECTID", 0),
         plant_code     |-> Get(attrs, "Plant_Code", 0),
         plant_name     |-> Get(attrs, "Plant_Name", EmptyStr),
         utility_name   |-> Get(attrs, "Utility_Name", EmptyStr),
         utility_id     |-> Get(attrs, "Utility_ID", 0),
         sector_name    |-> Get(attrs, "Sector_Name", EmptyStr),
         primary_source |-> Get(attrs, "PrimSource", EmptyStr),
         location       |-> ParseLocation(attrs, geom),
         capacity       |-> ParseCapacity(attrs),
         tech_desc      |-> Optional(attrs, "tech_desc"),
         source_desc    |-> Optional(attrs, "Source_Desc"),
         data_period    |-> Optional(attrs, "Period"),
         source         |-> Optional(attrs, "Source")]

\* [self._parse_feature_to_power_plant(feature) for feature in response.features]
ParseAll(features) == [i \in 1..Len(features) |-> ParseFeature(features[i])]

\* faulty variant of LimitReached: > for >=
LimitReached_Strict(lim, n) == Truthy(lim) /\ n > lim

\* `limit and len(all_plants) >= limit`
LimitReached(lim, n) == Truthy(lim) /\ n >= lim

\* `len(response.features) < batch_size or response.exceeded_transfer_limit`
PageEndsFetch(n, batch, exceeded) == n < batch \/ exceeded

\* faulty variant of NextOffset: the offset advances by the page size
NextOffset_ByBatch(off, n, batch) == off + batch

\* faulty variant of NextOffset: the offset is not advanced
NextOffset_Stuck(off, n, batch) == off

\* offset += len(response.features)
NextOffset(off, n, batch) == off + n

(***************************************************************************)
(* _make_request on one HTTP exchange.  An exchange is                     *)
(*   net    "ok" | "connection_error" | "timeout"   (session.get)          *)
(*   status the HTTP status                         (raise_for_status)     *)
(*   body   "json" (an object) | "json_array" | "garbage" (response.json)  *)
(*   data   the decoded object's entries                                   *)
(***************************************************************************)
\* faulty variant of MakeRequest: the `error` entry of the body is not looked at
MakeRequest_NoErrorCheck(w) ==
    IF w.net # "ok" \/ (w.status >= 400 /\ w.status < 600) \/ w.body = "garbage"
    THEN [raised |-> TRUE, data |-> EmptyDict]
    ELSE [raised |-> FALSE, data |-> w.data]

\* _make_request: session.get, raise_for_status, response.json, the `error`
\* check; every failure leaves as a RequestException
MakeRequest(w) ==
    IF w.net # "ok" THEN [raised |-> TRUE, data |-> EmptyDict]
    ELSE IF w.status >= 400 /\ w.status < 600 THEN [raised |-> TRUE, data |-> EmptyDict]
    ELSE IF w.body = "garbage" THEN [raised |-> TRUE, data |-> EmptyDict]
    ELSE IF w.body = "json" /\ "error" \in DOMAIN w.data
         THEN [raised |-> TRUE, data |-> EmptyDict]
    ELSE [raised |-> FALSE, data |-> w.data]

\* data.get in EIAAtlasResponse.from_dict needs a dict: a JSON array has no
\* .get and from_dict raises AttributeError
FromDictRaises(w) == w.body = "json_array"

(***************************************************************************)
(* The feature server.                                                     *)
(***************************************************************************)
\* record i of the server's dataset; the primary sources of the records
\* run through the strs of StrTable after ''
Feature(i) ==
    [attributes |-> [OBJECTID |-> i, Plant_Code |-> i,
                     PrimSource |-> StrBase + 1 + ((i - 1) % (Len(StrTable) - 1))]]

\* the server's dataset, in server order
Dataset(n) == [i \in 1..n |-> Feature(i)]

\* a 200 answer with a JSON body
Exchange(data) == [net |-> "ok", status |-> 200, body |-> "json", data |-> data]

\* a server that honours resultOffset and resultRecordCount, returns at most
\* its transfer limit M per page and flags exactly the pages that leave
\* records behind
HonestPage(n, m, cp) ==
    LET off == cp["resultOffset"]
        cnt == cp["resultRecordCount"]
        cap == IF cnt <= m THEN cnt ELSE m
        left == IF n >= off THEN n - off ELSE 0
        len == IF cap <= left THEN cap ELSE left
    IN  Exchange([features |-> [i \in 1..len |-> Feature(off + i)],
                  exceededTransferLimit |-> (off + len < n)])

\* failed exchanges: connection error, timeout, 4xx, 5xx, undecodable body,
\* and an `error` entry under status 200
FailedExchanges ==
    { [net |-> "connection_error", status |-> 0, body |-> "garbage", data |-> EmptyDict],
      [net |-> "timeout", status |-> 0, body |-> "garbage", data |-> EmptyDict],
      [net |-> "ok", status |-> 404, body |-> "garbage", data |-> EmptyDict],
      [net |-> "ok", status |-> 500, body |-> "json",
       data |-> [error |-> [message |-> "x"]]],
      [net |-> "ok", status |-> 200, body |-> "garbage", data |-> EmptyDict],
      [net |-> "ok", status |-> 200, body |-> "json",
       data |-> [error |-> [message |-> "x"]]],
      [net |-> "ok", status |-> 200, body |-> "json",
       data |-> [error |-> [message |-> "x"], features |-> << Feature(1) >>]] }

\* any server: pages of any length, starting at the requested offset or at
\* the first record, flagged or not, and bodies without `features`
ArbitraryPages(cp) ==
    { Exchange([features |-> [i \in 1..k |-> Feature(s + i)],
                exceededTransferLimit |-> b]) :
        k \in 0..MaxAdvLen, s \in {0, cp["resultOffset"]}, b \in BOOLEAN }
    \cup { Exchange([features |-> [i \in 1..k |-> Feature(i)]]) : k \in 0..MaxAdvLen }
    \cup { Exchange(EmptyDict), Exchange([exceededTransferLimit |-> TRUE]),
           [net |-> "ok", status |-> 200, body |-> "json_array", data |-> EmptyDict] }

(***************************************************************************)
(* State.                                                                  *)
(***************************************************************************)
\* get_power_plants calls
Calls == {1, 2}

\* PowerPlantQueryParams objects: 0 is the object the caller made, c is the
\* object call c makes for itself when it is given none
Objects == {0} \cup Calls

VARIABLES
    server,      \* the feature server: [mode, n, m]
    heap,        \* Objects -> PowerPlantQueryParams fields
    service,     \* per call: the service argument
    qarg,        \* per call: the query_params argument (None or an object)
    limit,       \* per call: the limit argument (None or an int)
    pc,          \* per call: position in get_power_plants
    qref,        \* per call: the local query_params
    url,         \* per call: the local url
    params,      \* per call: the local params
    all_plants,  \* per call: the local all_plants
    offset,      \* per call: the local offset
    batch_size,  \* per call: the local batch_size
    response,    \* per call: the local response
    result,      \* per call: the returned list
    exc,         \* per call: the exception raised
    reqs,        \* per call: the requests handed to session.get, in order
    wire,        \* per call: the HTTP exchange of the latest request
    pages,       \* per call: the feature lists of the pages decoded so far, in order
    made,        \* the caller's PowerPlantQueryParams as the caller made it
    primary_source,  \* a PowerPlant.primary_source given to the classifier
    energy_type,     \* its primary_energy_type, once evaluated
    feature,         \* a raw feature given to _parse_feature_to_power_plant
    plant,           \* the PowerPlant parsed from it
    request,         \* the filtered query asked of the client: method and arguments
    routed,          \* the get_power_plants call the filtered query makes
    outcome,         \* what the requested method returned or raised
    all_renewable,   \* get_renewable_plants: the plants collected so far
    renewable_pos    \* get_renewable_plants: place in renewable_types of the type being fetched, 0 outside the loop

\* the variables of the record-level operations (classifier and parser) and
\* of the filtered queries
recvars == << primary_source, energy_type, feature, plant, request, routed, outcome,
              all_renewable, renewable_pos >>

vars == << server, heap, service, qarg, limit, pc, qref, url, params, all_plants,
           offset, batch_size, response, result, exc, reqs, wire, pages, made,
           recvars >>

\* no record-level operation is under way
RecIdle ==
    /\ primary_source = << >>
    /\ energy_type = "unset"
    /\ feature = << >>
    /\ plant = << >>
    /\ request = << >>
    /\ routed = << >>
    /\ outcome = << >>
    /\ all_renewable = << >>
    /\ renewable_pos = 0

NoExchange == [net |-> "none", status |-> 0, body |-> "garbage", data |-> EmptyDict]

NoResponse == [features |-> << >>, exceeded_transfer_limit |-> FALSE]

\* the servers of the model
Servers ==
    { [mode |-> "honest", n |-> n, m |-> m] :
        n \in (0..MaxN) \cup {DefaultBatch, DefaultBatch + 1},
        m \in (1..MaxM) \cup {DefaultBatch} }
    \cup { [mode |-> "any", n |-> 0, m |-> 0] }

\* the PowerPlantQueryParams objects a caller makes
CallerParams ==
    { [where_clause |-> "1=1", result_record_count |-> r, result_offset |-> o] :
        r \in {None} \cup (0..MaxPage), o \in {None, 1} }

Init ==
    /\ RecIdle
    /\ server \in Servers
    /\ made \in CallerParams
    /\ heap = [o \in Objects |-> IF o = 0 THEN made ELSE NewQueryParams]
    /\ \E s \in {"all_plants", "tidal_plants"} :
          service = [c \in Calls |-> s]
    /\ \E a \in {None, 0} : qarg = [c \in Calls |-> a]
    /\ \E l \in {None} \cup (0..MaxLimit) : limit = [c \in Calls |-> l]
    /\ pc = [c \in Calls |-> IF c = 1 THEN "start" ELSE "off"]
    /\ qref = [c \in Calls |-> None]
    /\ url = [c \in Calls |-> << >>]
    /\ params = [c \in Calls |-> EmptyDict]
    /\ all_plants = [c \in Calls |-> << >>]
    /\ offset = [c \in Calls |-> 0]
    /\ batch_size = [c \in Calls |-> 0]
    /\ response = [c \in Calls |-> NoResponse]
    /\ result = [c \in Calls |-> << >>]
    /\ exc = [c \in Calls |-> "none"]
    /\ reqs = [c \in Calls |-> << >>]
    /\ wire = [c \in Calls |-> NoExchange]
    /\ pages = [c \in Calls |-> << >>]

(***************************************************************************)
(* get_power_plants, one action per step.                                  *)
(***************************************************************************)
\* lines 169-173: the service check, then the default query_params
Enter(c) ==
    /\ pc[c] = "start"
    /\ UNCHANGED recvars
    /\ IF ~ServiceKnown(service[c])
       THEN /\ pc' = [pc EXCEPT ![c] = "raised"]
            /\ exc' = [exc EXCEPT ![c] = "ValueError"]
            /\ UNCHANGED << heap, qref >>
       ELSE /\ pc' = [pc EXCEPT ![c] = "set_limit"]
            /\ qref' = [qref EXCEPT ![c] = IF qarg[c] = None THEN c ELSE qarg[c]]
            /\ heap' = IF qarg[c] = None THEN [heap EXCEPT ![c] = NewQueryParams] ELSE heap
            /\ UNCHANGED exc
    /\ UNCHANGED << server, service, qarg, limit, url, params, all_plants, offset,
                    batch_size, response, result, reqs, wire, pages, made >>

\* lines 175-176: if limit: query_params.result_record_count = limit
SetLimit(c) ==
    /\ pc[c] = "set_limit"
    /\ UNCHANGED recvars
    /\ heap' = IF Truthy(limit[c])
               THEN [heap EXCEPT ![qref[c]].result_record_count = limit[c]]
               ELSE heap
    /\ pc' = [pc EXCEPT ![c] = "build_params"]
    /\ UNCHANGED << server, service, qarg, limit, qref, url, params, all_plants, offset,
                    batch_size, response, result, exc, reqs, wire, pages, made >>

\* lines 178-179: url and params = query_params.to_dict()
BuildParams(c) ==
    /\ pc[c] = "build_params"
    /\ UNCHANGED recvars
    /\ url' = [url EXCEPT ![c] = BuildUrl(SERVICES[service[c]])]
    /\ params' = [params EXCEPT ![c] = ToDict(heap[qref[c]])]
    /\ pc' = [pc EXCEPT ![c] = "init_loop"]
    /\ UNCHANGED << server, heap, service, qarg, limit, qref, all_plants, offset,
                    batch_size, response, result, exc, reqs, wire, pages, made >>

\* lines 181-183: all_plants, offset, batch_size
InitLoop(c) ==
    /\ pc[c] = "init_loop"
    /\ UNCHANGED recvars
    /\ all_plants' = [all_plants EXCEPT ![c] = << >>]
    /\ offset' = [offset EXCEPT ![c] = 0]
    /\ batch_size' = [batch_size EXCEPT ![c] = BatchSize(heap[qref[c]])]
    /\ pc' = [pc EXCEPT ![c] = "loop"]
    /\ UNCHANGED << server, heap, service, qarg, limit, qref, url, params, response,
                    result, exc, reqs, wire, pages, made >>

\* lines 187-192 and 75: current_params goes out through session.get
SendRequest(c) ==
    /\ pc[c] = "loop"
    /\ UNCHANGED recvars
    /\ Len(reqs[c]) < MaxReq
    /\ reqs' = [reqs EXCEPT ![c] =
                  Append(@, [url |-> url[c],
                             params |-> CurrentParams(params[c], offset[c], batch_size[c])])]
    /\ pc' = [pc EXCEPT ![c] = "request"]
    /\ UNCHANGED << server, heap, service, qarg, limit, qref, url, params, all_plants,
                    offset, batch_size, response, result, exc, wire, pages, made >>

\* what the server may answer to the request in flight
Answers(c) ==
    LET cp == reqs[c][Len(reqs[c])].params
    IN  FailedExchanges
        \cup (IF server.mode = "honest"
              THEN {HonestPage(server.n, server.m, cp)}
              ELSE ArbitraryPages(cp))

\* lines 192 and 73-92: _make_request raises; nothing in get_power_plants
\* catches it
RequestFails(c) ==
    /\ pc[c] = "request"
    /\ UNCHANGED recvars
    /\ \E w \in Answers(c) :
          /\ MakeRequest(w).raised
          /\ wire' = [wire EXCEPT ![c] = w]
    /\ pc' = [pc EXCEPT ![c] = "raised"]
    /\ exc' = [exc EXCEPT ![c] = "RequestException"]
    /\ UNCHANGED << server, heap, service, qarg, limit, qref, url, params, all_plants,
                    offset, batch_size, response, result, reqs, pages, made >>

\* lines 192-193: _make_request returns a JSON value that is no object and
\* from_dict raises on it
FromDictFails(c) ==
    /\ pc[c] = "request"
    /\ UNCHANGED recvars
    /\ \E w \in Answers(c) :
          /\ ~MakeRequest(w).raised
          /\ FromDictRaises(w)
          /\ wire' = [wire EXCEPT ![c] = w]
    /\ pc' = [pc EXCEPT ![c] = "raised"]
    /\ exc' = [exc EXCEPT ![c] = "AttributeError"]
    /\ UNCHANGED << server, heap, service, qarg, limit, qref, url, params, all_plants,
                    offset, batch_size, response, result, reqs, pages, made >>

\* lines 192-217: a decoded page goes through the rest of the loop body
ReceivePage(c) ==
    /\ pc[c] = "request"
    /\ UNCHANGED recvars
    /\ \E w \in Answers(c) :
          /\ ~MakeRequest(w).raised
          /\ ~FromDictRaises(w)
          /\ wire' = [wire EXCEPT ![c] = w]
          /\ LET resp == FromDict(MakeRequest(w).data)
                 n == Len(resp.features)
                 grown == all_plants[c] \o ParseAll(resp.features)
             IN  /\ response' = [response EXCEPT ![c] = resp]
                 /\ pages' = [pages EXCEPT ![c] = Append(@, resp.features)]
                 /\ IF n = 0
                    THEN /\ pc' = [pc EXCEPT ![c] = "returned"]
                         /\ result' = [result EXCEPT ![c] = all_plants[c]]
                         /\ UNCHANGED << all_plants, offset >>
                    ELSE IF LimitReached(limit[c], Len(grown))
                    THEN /\ all_plants' = [all_plants EXCEPT ![c] = SubSeq(grown, 1, limit[c])]
                         /\ pc' = [pc EXCEPT ![c] = "returned"]
                         /\ result' = [result EXCEPT ![c] = SubSeq(grown, 1, limit[c])]
                         /\ UNCHANGED offset
                    ELSE IF PageEndsFetch(n, batch_size[c], resp.exceeded_transfer_limit)
                    THEN /\ all_plants' = [all_plants EXCEPT ![c] = grown]
                         /\ pc' = [pc EXCEPT ![c] = "returned"]
                         /\ result' = [result EXCEPT ![c] = grown]
                         /\ UNCHANGED offset
                    ELSE /\ all_plants' = [all_plants EXCEPT ![c] = grown]
                         /\ offset' = [offset EXCEPT ![c] = NextOffset(@, n, batch_size[c])]
                         /\ pc' = [pc EXCEPT ![c] = "loop"]
                         /\ UNCHANGED result
    /\ UNCHANGED << server, heap, service, qarg, limit, qref, url, params, batch_size,
                    exc, reqs, made >>

Next ==
    \E c \in Calls :
        \/ Enter(c)
        \/ SetLimit(c)
        \/ BuildParams(c)
        \/ InitLoop(c)
        \/ SendRequest(c)
        \/ RequestFails(c)
        \/ FromDictFails(c)
        \/ ReceivePage(c)

Spec == Init /\ [][Next]_vars

\* the call runs to its end: every step is taken, and every request is
\* answered or times out
FairSpec == Spec /\ WF_vars(Next)

(***************************************************************************)
(* Vocabulary of the properties.                                           *)
(***************************************************************************)
RECURSIVE Flatten(_)
\* the concatenation of a sequence of feature lists
Flatten(ps) == IF ps = << >> THEN << >> ELSE Flatten(SubSeq(ps, 1, Len(ps) - 1)) \o ps[Len(ps)]

\* every feature call c has received in decoded pages, in order of arrival
Received(c) == Flatten(pages[c])

\* the call has ended, by return or by exception
Ended(c) == pc[c] \in {"returned", "raised"}

\* the exchange is one of the failures of a page request: transport error,
\* timeout, non-2xx status, undecodable body, or a body with an `error` entry
IsFailure(w) ==
    \/ w.net \in {"connection_error", "timeout"}
    \/ w.net = "ok" /\ (w.status < 200 \/ w.status > 299)
    \/ w.net = "ok" /\ w.body = "garbage"
    \/ w.net = "ok" /\ w.body = "json" /\ "error" \in DOMAIN w.data

\* the caller gave a PowerPlantQueryParams whose page size is not 0
PageSizeUsable(c) == qarg[c] = None \/ made.result_record_count # 0

\* the page size the caller asked for: result_record_count when set, else 1000
CallerPageSize(c) ==
    IF qarg[c] # None /\ made.result_record_count # None
    THEN made.result_record_count
    ELSE DefaultBatch

(***************************************************************************)
(* C1: against an honest server with N records, a call without a limit     *)
(* returns all N records, each once and in server order.                   *)
(***************************************************************************)
C1_ReturnsWholeDataset ==
    \A c \in Calls :
        (server.mode = "honest" /\ limit[c] = None /\ PageSizeUsable(c)
         /\ pc[c] = "returned")
        => result[c] = ParseAll(Dataset(server.n))

(***************************************************************************)
(* C2: the resultOffset of every page request equals the number of         *)
(* features received in all earlier pages of the call (0 on the first).    *)
(***************************************************************************)
C2_OffsetIsReceivedCount ==
    \A c \in Calls :
        \A i \in 1..Len(reqs[c]) :
            /\ i - 1 <= Len(pages[c])
            /\ reqs[c][i].params["resultOffset"]
                 = Len(Flatten(SubSeq(pages[c], 1, i - 1)))

\* a third request goes out after two non-empty pages, the first of them
\* longer than the page size
C2_Witness ==
    \E c \in Calls :
        /\ Len(reqs[c]) = 3
        /\ Len(pages[c][1]) > batch_size[c]
        /\ Len(pages[c][2]) > 0
        /\ reqs[c][3].params["resultOffset"] = Len(pages[c][1]) + Len(pages[c][2])

(***************************************************************************)
(* C3: after a non-empty page with no limit reached, the call stops iff    *)
(* the page is shorter than the page size AND its exceededTransferLimit    *)
(* flag is false; otherwise it goes on to the next page.                   *)
(***************************************************************************)
C3_StopsIffShortAndNotExceeded ==
    [][\A c \in Calls :
         (/\ pc[c] = "request"
          /\ pc'[c] \in {"loop", "returned"}
          /\ Len(response'[c].features) > 0
          /\ ~(Truthy(limit[c])
               /\ Len(all_plants[c]) + Len(response'[c].features) >= limit[c]))
         => (pc'[c] = "returned"
               <=> (/\ Len(response'[c].features) < batch_size[c]
                    /\ ~response'[c].exceeded_transfer_limit))]_vars

(***************************************************************************)
(* C4: with page size 1000 and no limit, a page of exactly 1000 features   *)
(* is followed by another request when its flag is true and by the return  *)
(* when its flag is false.                                                 *)
(***************************************************************************)
C4_FullPageFollowsFlag ==
    [][\A c \in Calls :
         (/\ pc[c] = "request"
          /\ pc'[c] \in {"loop", "returned"}
          /\ limit[c] = None
          /\ batch_size[c] = 1000
          /\ Len(response'[c].features) = 1000)
         => IF response'[c].exceeded_transfer_limit
            THEN pc'[c] = "loop"
            ELSE pc'[c] = "returned"]_vars

(***************************************************************************)
(* C5: with a limit L >= 1 and any server, the call returns at most L      *)
(* records; once the received records reach L it returns the first L of    *)
(* them and sends no further request.                                      *)
(***************************************************************************)
C5_LimitTruncatesAndStops ==
    \A c \in Calls :
        (limit[c] # None /\ limit[c] >= 1)
        => /\ pc[c] = "returned" => Len(result[c]) <= limit[c]
           /\ Len(Received(c)) >= limit[c]
              => /\ pc[c] = "returned"
                 /\ result[c] = SubSeq(ParseAll(Received(c)), 1, limit[c])
                 /\ Len(reqs[c]) = Len(pages[c])

\* a page longer than the limit arrives: the call returns the first L records
C5_Witness ==
    \E c \in Calls :
        /\ limit[c] # None /\ limit[c] >= 1
        /\ Len(Received(c)) > limit[c]
        /\ pc[c] = "returned"
        /\ Len(result[c]) = limit[c]
        /\ Len(result[c]) < Len(Received(c))

(***************************************************************************)
(* C6: the page size sent and tested is the caller's result_record_count   *)
(* (1000 when unset), whatever the limit; with page size P, limit L > P    *)
(* and a server holding at least L records the call returns L records      *)
(* after ceil(L/P) requests.                                               *)
(***************************************************************************)
C6_PageSizeIndependentOfLimit ==
    \A c \in Calls :
        PageSizeUsable(c)
        => /\ \A i \in 1..Len(reqs[c]) :
                reqs[c][i].params["resultRecordCount"] = CallerPageSize(c)
           /\ pc[c] \in {"loop", "request", "returned"}
              => batch_size[c] = CallerPageSize(c)
           /\ (/\ server.mode = "honest"
               /\ pc[c] = "returned"
               /\ limit[c] # None
               /\ limit[c] > CallerPageSize(c)
               /\ server.n >= limit[c]
               /\ server.m >= CallerPageSize(c))
              => /\ Len(result[c]) = limit[c]
                 /\ Len(reqs[c]) = (limit[c] + CallerPageSize(c) - 1) \div CallerPageSize(c)

C8_MissingFeaturesIsFatal ==
    \A c \in Calls :
        (/\ wire[c].net = "ok"
         /\ wire[c].status = 200
         /\ wire[c].body \in {"json", "json_array"}
         /\ "features" \notin DOMAIN wire[c].data)
        => pc[c] = "raised"

(***************************************************************************)
(* C9: a service name that is no key of SERVICES raises before any         *)
(* request is sent.                                                        *)
(***************************************************************************)
C9_UnknownServiceRaisesFirst ==
    \A c \in Calls :
        (service[c] \notin DOMAIN SERVICES /\ pc[c] \notin {"off", "start"})
        => /\ pc[c] = "raised"
           /\ exc[c] = "ValueError"
           /\ reqs[c] = << >>

\* the call with the unknown service has raised
C9_Witness ==
    \E c \in Calls :
        /\ service[c] = "tidal_plants"
        /\ pc[c] = "raised"
        /\ exc[c] = "ValueError"

(***************************************************************************)
(* C10: against an honest server with a finite dataset the call ends       *)
(* after finitely many page requests, for every page size and limit.       *)
(***************************************************************************)
C10_Terminates ==
    \A c \in Calls :
        (server.mode = "honest" /\ pc[c] = "start") ~> Ended(c)

\* a call against an honest server has ended after a page that was not its
\* last
C10_Witness ==
    \E c \in Calls :
        /\ server.mode = "honest"
        /\ server.n > 0
        /\ Len(reqs[c]) = 2
        /\ pc[c] = "returned"

(***************************************************************************)
(* C11: the loop has no iteration cap: with no limit, a non-empty page     *)
(* flagged exceededTransferLimit=true, and likewise a full page, is always *)
(* followed by another request, so a server that only sends such pages     *)
(* keeps the call running for ever.                                        *)
(***************************************************************************)
C11_FlaggedOrFullPageGoesOn ==
    [][\A c \in Calls :
         (/\ pc[c] = "request"
          /\ pc'[c] \in {"loop", "returned"}
          /\ limit[c] = None
          /\ Len(response'[c].features) > 0
          /\ \/ response'[c].exceeded_transfer_limit
             \/ Len(response'[c].features) >= batch_size[c])
         => pc'[c] = "loop"]_vars

(***************************************************************************)
(* C12: get_power_plants reads the caller's PowerPlantQueryParams only:    *)
(* at every point of a call every field of the object has the value the    *)
(* caller gave it.                                                         *)
(***************************************************************************)
C12_CallerParamsUntouched ==
    \A c \in Calls : qarg[c] # None => heap[qarg[c]] = made

(***************************************************************************)
(* Two get_power_plants calls on one client, interleaved step by step.     *)
(* Both calls are given the same query_params argument (the caller's one   *)
(* object, or None) and each its own limit.                                *)
(***************************************************************************)
\* the servers the two calls run against
ConcServers ==
    { [mode |-> "honest", n |-> 1, m |-> 1], [mode |-> "any", n |-> 0, m |-> 0] }

ConcInit ==
    /\ RecIdle
    /\ server \in ConcServers
    /\ made = NewQueryParams
    /\ heap = [o \in Objects |-> IF o = 0 THEN made ELSE NewQueryParams]
    /\ service = [c \in Calls |-> "all_plants"]
    /\ \E a \in {None, 0} : qarg = [c \in Calls |-> a]
    /\ limit \in [Calls -> {None} \cup (1..MaxPage)]
    /\ pc = [c \in Calls |-> "start"]
    /\ qref = [c \in Calls |-> None]
    /\ url = [c \in Calls |-> << >>]
    /\ params = [c \in Calls |-> EmptyDict]
    /\ all_plants = [c \in Calls |-> << >>]
    /\ offset = [c \in Calls |-> 0]
    /\ batch_size = [c \in Calls |-> 0]
    /\ response = [c \in Calls |-> NoResponse]
    /\ result = [c \in Calls |-> << >>]
    /\ exc = [c \in Calls |-> "none"]
    /\ reqs = [c \in Calls |-> << >>]
    /\ wire = [c \in Calls |-> NoExchange]
    /\ pages = [c \in Calls |-> << >>]

ConcSpec == ConcInit /\ [][Next]_vars

\* the PowerPlantQueryParams call c works with when it runs alone: its
\* argument or a fresh object, with the limit written into it
SoloParams(c) ==
    LET q == IF qarg[c] = None THEN NewQueryParams ELSE made
    IN  IF Truthy(limit[c]) THEN [q EXCEPT !.result_record_count = limit[c]] ELSE q

(***************************************************************************)
(* C13: two calls interleaved on one client, also when both are given the  *)
(* same PowerPlantQueryParams object and different limits, each send the   *)
(* offsets and page sizes they send when run alone: the page size sent and *)
(* the batch size tested are those of the call's own arguments, and each   *)
(* offset is the number of features the call itself has received.          *)
(***************************************************************************)
C13_CallsDoNotInterfere ==
    \A c \in Calls :
        /\ \A i \in 1..Len(reqs[c]) :
              /\ reqs[c][i].params["resultRecordCount"]
                   = CurrentParams(ToDict(SoloParams(c)), 0,
                                   BatchSize(SoloParams(c)))["resultRecordCount"]
              /\ i - 1 <= Len(pages[c])
              /\ reqs[c][i].params["resultOffset"]
                   = Len(Flatten(SubSeq(pages[c], 1, i - 1)))
        /\ pc[c] \in {"loop", "request", "returned"}
           => batch_size[c] = BatchSize(SoloParams(c))
        /\ all_plants[c] = ParseAll(Received(c))
           \/ (pc[c] = "returned" /\ all_plants[c] = SubSeq(ParseAll(Received(c)), 1, limit[c]))

(***************************************************************************)
(* The classifier on its own: a primary_source is drawn and classified.    *)
(***************************************************************************)
\* most pieces a primary_source is put together from
MaxParts == 2

\* the pieces: the labels of EnergyType, keywords the labels do not hold,
\* other spellings, and parts of keywords
SourcePieces ==
    { << "C", "o", "a", "l" >>,
      << "N", "a", "t", "u", "r", "a", "l", " ", "G", "a", "s" >>,
      << "N", "u", "c", "l", "e", "a", "r" >>,
      << "H", "y", "d", "r", "o", "e", "l", "e", "c", "t", "r", "i", "c" >>,
      << "H", "y", "d", "r", "o", " ", "P", "u", "m", "p", "e", "d", " ", "S", "t", "o", "r", "a", "g", "e" >>,
      << "S", "o", "l", "a", "r" >>,
      << "W", "i", "n", "d" >>,
      << "G", "e", "o", "t", "h", "e", "r", "m", "a", "l" >>,
      << "B", "i", "o", "m", "a", "s", "s" >>,
      << "B", "a", "t", "t", "e", "r", "y", " ", "S", "t", "o", "r", "a", "g", "e" >>,
      << "O", "t", "h", "e", "r" >>,
      << "C", "r", "u", "d", "e", " ", "O", "i", "l" >>,
      << "b", "a", "t", "t", "e", "r", "i", "e", "s" >>,
      << "p", "e", "t", "r", "o", "l", "e", "u", "m" >>,
      << "h", "y", "d", "r", "o" >>,
      << "C", "O", "A", "L" >>,
      << "W", "I", "N", "D" >>,
      << "c", "O", "a", "L" >>,
      << "n", "a", "t", "u", "r", "a", "l", " " >>,
      << "g", "a", "s" >>,
      << "c", "r", "u", "d", "e", " " >>,
      << "o", "i", "l" >>,
      << " " >> }

RECURSIVE SourceStrings(_)
\* the strs made of at most n pieces
SourceStrings(n) ==
    IF n = 0 THEN { << >> }
    ELSE SourceStrings(n - 1)
         \cup { a \o b : a \in SourceStrings(n - 1), b \in SourcePieces }

\* no get_power_plants call is under way
\* no get_power_plants call has been made
CallsIdle ==
    /\ made = NewQueryParams
    /\ heap = [o \in Objects |-> NewQueryParams]
    /\ service = [c \in Calls |-> "all_plants"]
    /\ qarg = [c \in Calls |-> None]
    /\ limit = [c \in Calls |-> None]
    /\ pc = [c \in Calls |-> "off"]
    /\ qref = [c \in Calls |-> None]
    /\ url = [c \in Calls |-> << >>]
    /\ params = [c \in Calls |-> EmptyDict]
    /\ all_plants = [c \in Calls |-> << >>]
    /\ offset = [c \in Calls |-> 0]
    /\ batch_size = [c \in Calls |-> 0]
    /\ response = [c \in Calls |-> NoResponse]
    /\ result = [c \in Calls |-> << >>]
    /\ exc = [c \in Calls |-> "none"]
    /\ reqs = [c \in Calls |-> << >>]
    /\ wire = [c \in Calls |-> NoExchange]
    /\ pages = [c \in Calls |-> << >>]

PageIdle ==
    /\ server = [mode |-> "any", n |-> 0, m |-> 0]
    /\ CallsIdle

\* the variables of get_power_plants and the server
pagevars == << server, heap, service, qarg, limit, pc, qref, url, params, all_plants,
               offset, batch_size, response, result, exc, reqs, wire, pages, made >>

ClassifyInit ==
    /\ PageIdle
    /\ primary_source \in SourceStrings(MaxParts)
    /\ energy_type = "unset"
    /\ feature = << >>
    /\ plant = << >>
    /\ request = << >>
    /\ routed = << >>
    /\ outcome = << >>
    /\ all_renewable = << >>
    /\ renewable_pos = 0

\* plant.primary_energy_type is evaluated
Classify ==
    /\ energy_type = "unset"
    /\ energy_type' = PrimaryEnergyType(primary_source)
    /\ UNCHANGED << pagevars, primary_source, feature, plant, request, routed, outcome,
                    all_renewable, renewable_pos >>

ClassifySpec == ClassifyInit /\ [][Classify]_vars

(***************************************************************************)
(* Vocabulary of the classifier's properties.                              *)
(***************************************************************************)
\* the keyword table as the specification lists it, first entry first
KeywordTable ==
    <<
      << << "c", "o", "a", "l" >>, "COAL" >>,
      << << "n", "a", "t", "u", "r", "a", "l", " ", "g", "a", "s" >>, "NATURAL_GAS" >>,
      << << "n", "u", "c", "l", "e", "a", "r" >>, "NUCLEAR" >>,
      << << "h", "y", "d", "r", "o" >>, "HYDRO" >>,
      << << "h", "y", "d", "r", "o", "e", "l", "e", "c", "t", "r", "i", "c" >>, "HYDRO" >>,
      << << "s", "o", "l", "a", "r" >>, "SOLAR" >>,
      << << "w", "i", "n", "d" >>, "WIND" >>,
      << << "g", "e", "o", "t", "h", "e", "r", "m", "a", "l" >>, "GEOTHERMAL" >>,
      << << "b", "i", "o", "m", "a", "s", "s" >>, "BIOMASS" >>,
      << << "b", "a", "t", "t", "e", "r", "i", "e", "s" >>, "BATTERY" >>,
      << << "b", "a", "t", "t", "e", "r", "y" >>, "BATTERY" >>,
      << << "c", "r", "u", "d", "e", " ", "o", "i", "l" >>, "CRUDE_OIL" >>,
      << << "p", "e", "t", "r", "o", "l", "e", "u", "m" >>, "CRUDE_OIL" >>
    >>

\* the upper-case form of a character
UpperOf(ch) ==
    IF \E i \in 1..26 : LowerLetters[i] = ch
    THEN UpperLetters[CHOOSE i \in 1..26 : LowerLetters[i] = ch]
    ELSE ch

\* the keyword occurs in the str somewhere, letter case set aside
Occurs(keyword, str) ==
    \E i \in 1..Len(str) :
        /\ i + Len(keyword) - 1 <= Len(str)
        /\ \A j \in 1..Len(keyword) : UpperOf(str[i + j - 1]) = UpperOf(keyword[j])

\* the type of the first keyword of the table that occurs, Other when none
FirstKeywordType(str) ==
    LET hits == { k \in 1..Len(KeywordTable) : Occurs(KeywordTable[k][1], str) }
    IN  IF hits = {} THEN "OTHER"
        ELSE KeywordTable[CHOOSE k \in hits : \A h \in hits : k <= h][2]

\* the types whose label is classified as the type itself through a keyword
KeywordTypes ==
    {"COAL", "NATURAL_GAS", "NUCLEAR", "HYDRO", "SOLAR", "WIND", "GEOTHERMAL",
     "BIOMASS", "BATTERY", "CRUDE_OIL"}

(***************************************************************************)
(* C14: primary_energy_type returns, for every primary_source, the type of *)
(* the first keyword in table order that occurs in it case-insensitively,  *)
(* and Other when no keyword occurs; it never fails.                       *)
(***************************************************************************)
C14_FirstKeywordDecides ==
    energy_type # "unset"
    => /\ energy_type \in DOMAIN EnergyType
       /\ energy_type = FirstKeywordType(primary_source)

\* 'WindCOAL' holds two keywords; the one earlier in the table decides
C14_Witness ==
    /\ primary_source = EnergyType["WIND"] \o << "C", "O", "A", "L" >>
    /\ energy_type = "COAL"

(***************************************************************************)
(* C15: 'Hydro Pumped Storage' and 'Hydroelectric' are both classified     *)
(* Hydro, and no primary_source is classified HydroPumped.                 *)
(***************************************************************************)
C15_PumpedStorageIsHydro ==
    /\ energy_type # "HYDRO_PUMPED"
    /\ (energy_type # "unset"
        /\ primary_source \in {EnergyType["HYDRO_PUMPED"], EnergyType["HYDRO"]})
       => energy_type = "HYDRO"

\* 'Hydro Pumped Storage' has been classified
C15_Witness ==
    /\ primary_source = EnergyType["HYDRO_PUMPED"]
    /\ energy_type = "HYDRO"

(***************************************************************************)
(* C16: the label of an EnergyType is classified as that type for exactly  *)
(* the ten keyword types; the labels of Other and HydroPumped are not.     *)
(***************************************************************************)
C16_TenLabelsRoundTrip ==
    \A t \in DOMAIN EnergyType :
        (energy_type # "unset" /\ primary_source = EnergyType[t])
        => (energy_type = t <=> t \in KeywordTypes)

(***************************************************************************)
(* C16, amended: the label of an EnergyType is classified as that type for *)
(* eleven types, the ten keyword types and Other (whose label holds no     *)
(* keyword and falls to the default); only HydroPumped's label is not.     *)
(***************************************************************************)
C16_AllButPumpedRoundTrip ==
    \A t \in DOMAIN EnergyType :
        (energy_type # "unset" /\ primary_source = EnergyType[t])
        => (energy_type = t <=> t \in KeywordTypes \cup {"OTHER"})

\* the label 'Other' has been classified, as Other
C16_Witness ==
    /\ primary_source = EnergyType["OTHER"]
    /\ energy_type = "OTHER"

(***************************************************************************)
(* The parser alone: _parse_feature_to_power_plant on one raw feature.     *)
(***************************************************************************)
\* how many attribute keys a feature lacks, or holds, at most
MaxLack == 1

\* the attribute keys the parser looks up that hold a number
NumberKeys ==
    {"Latitude", "Longitude", "Zip", "Total_MW", "Install_MW", "Coal_MW", "NG_MW",
     "Nuclear_MW", "Hydro_MW", "HydroPS_MW", "Solar_MW", "Wind_MW", "Geo_MW",
     "Bio_MW", "Bat_MW", "Crude_MW", "Other_MW", "OBJECTID", "Plant_Code",
     "Utility_ID", "Period"}

\* the attribute keys the parser looks up that hold a str
StrKeys ==
    {"City", "County", "StateName", "Street_Address", "Plant_Name", "Utility_Name",
     "Sector_Name", "PrimSource", "tech_desc", "Source_Desc", "Source"}

AttrKeys == NumberKeys \cup StrKeys

\* a value for each attribute: no number is zero, no str is empty, and the
\* attribute coordinates differ from the geometry's
SampleAttrs ==
    [k \in AttrKeys |->
        CASE k = "Latitude"  -> 1
          [] k = "Longitude" -> 2
          [] k \in StrKeys   -> StrBase + 1
          [] OTHER           -> 5]

SampleGeometry == [x |-> 4, y |-> 3]

\* the sets of at most n attribute keys
RECURSIVE KeySets(_)
KeySets(n) ==
    IF n = 0 THEN {{}}
    ELSE LET less == KeySets(n - 1)
         IN  less \cup { S \cup {k} : S \in less, k \in AttrKeys }

\* the attribute dicts that hold, or lack, at most MaxLack keys
AttrDicts ==
    { [k \in S |-> SampleAttrs[k]] : S \in KeySets(MaxLack) }
    \cup { [k \in AttrKeys \ S |-> SampleAttrs[k]] : S \in KeySets(MaxLack) }

GeometryDicts == { [k \in G |-> SampleGeometry[k]] : G \in SUBSET {"x", "y"} }

\* the raw features: with or without 'attributes', with or without 'geometry'
RawFeatures ==
    { EmptyDict }
    \cup { [k \in {"attributes"} |-> a] : a \in AttrDicts }
    \cup { [k \in {"geometry"} |-> g] : g \in GeometryDicts }
    \cup { [attributes |-> a, geometry |-> g] : a \in AttrDicts, g \in GeometryDicts }

ParseInit ==
    /\ PageIdle
    /\ primary_source = << >>
    /\ energy_type = "unset"
    /\ feature \in RawFeatures
    /\ plant = << >>
    /\ request = << >>
    /\ routed = << >>
    /\ outcome = << >>
    /\ all_renewable = << >>
    /\ renewable_pos = 0

\* faulty variant of Parse: feature.setdefault('attributes', {}) in place of get
Parse_SetDefault ==
    /\ plant = << >>
    /\ plant' = ParseFeature(feature)
    /\ feature' = DictSet(feature, "attributes", Get(feature, "attributes", EmptyDict))
    /\ UNCHANGED << pagevars, primary_source, energy_type, request, routed, outcome,
                    all_renewable, renewable_pos >>

\* self._parse_feature_to_power_plant(feature)
Parse ==
    /\ plant = << >>
    /\ plant' = ParseFeature(feature)
    /\ UNCHANGED << pagevars, primary_source, energy_type, feature, request, routed, outcome,
                    all_renewable, renewable_pos >>

ParseSpec == ParseInit /\ [][Parse]_vars

(***************************************************************************)
(* Vocabulary of the parser's properties.                                  *)
(***************************************************************************)
\* a plant has been parsed
Parsed == DOMAIN plant # {}

\* the attributes and the geometry of the raw feature, empty when it has none
RawAttributes == IF "attributes" \in DOMAIN feature THEN feature["attributes"] ELSE EmptyDict

RawGeometry == IF "geometry" \in DOMAIN feature THEN feature["geometry"] ELSE EmptyDict

\* the fields of a PowerPlant
PowerPlantFields ==
    {"object_id", "plant_code", "plant_name", "utility_name", "utility_id",
     "sector_name", "primary_source", "location", "capacity", "tech_desc",
     "source_desc", "data_period", "source"}

\* the parsed numeric fields that come from one attribute each, by attribute
NumberFields(p) ==
    [Zip        |-> p.location.zip_code,
     Total_MW   |-> p.capacity.total_mw,
     Install_MW |-> p.capacity.install_mw,
     Coal_MW    |-> p.capacity.coal_mw,
     NG_MW      |-> p.capacity.natural_gas_mw,
     Nuclear_MW |-> p.capacity.nuclear_mw,
     Hydro_MW   |-> p.capacity.hydro_mw,
     HydroPS_MW |-> p.capacity.hydro_pumped_mw,
     Solar_MW   |-> p.capacity.solar_mw,
     Wind_MW    |-> p.capacity.wind_mw,
     Geo_MW     |-> p.capacity.geothermal_mw,
     Bio_MW     |-> p.capacity.biomass_mw,
     Bat_MW     |-> p.capacity.battery_mw,
     Crude_MW   |-> p.capacity.crude_oil_mw,
     Other_MW   |-> p.capacity.other_mw,
     Period     |-> p.data_period,
     OBJECTID   |-> p.object_id,
     Plant_Code |-> p.plant_code,
     Utility_ID |-> p.utility_id]

\* the parsed str fields the specification gives a default, by attribute
DefaultedStrFields(p) ==
    [Plant_Name   |-> p.plant_name,
     Utility_Name |-> p.utility_name,
     Sector_Name  |-> p.sector_name,
     PrimSource   |-> p.primary_source]

ZeroDefaultKeys == {"OBJECTID", "Plant_Code", "Utility_ID"}

(***************************************************************************)
(* C17: the parsed latitude is the geometry's y and the parsed longitude   *)
(* the geometry's x whenever the geometry holds them, whatever the         *)
(* attributes hold; an attribute Latitude/Longitude is used only for a     *)
(* coordinate the geometry lacks.                                          *)
(***************************************************************************)
C17_GeometryBeforeAttributes ==
    Parsed =>
        /\ "y" \in DOMAIN RawGeometry => plant.location.latitude = RawGeometry["y"]
        /\ "x" \in DOMAIN RawGeometry => plant.location.longitude = RawGeometry["x"]
        /\ ("y" \notin DOMAIN RawGeometry /\ "Latitude" \in DOMAIN RawAttributes)
           => plant.location.latitude = RawAttributes["Latitude"]
        /\ ("x" \notin DOMAIN RawGeometry /\ "Longitude" \in DOMAIN RawAttributes)
           => plant.location.longitude = RawAttributes["Longitude"]

\* geometry and attributes both hold the coordinates, with different values
C17_Witness ==
    /\ Parsed
    /\ DOMAIN RawGeometry = {"x", "y"}
    /\ {"Latitude", "Longitude"} \subseteq DOMAIN RawAttributes
    /\ RawAttributes["Latitude"] # RawGeometry["y"]
    /\ RawAttributes["Longitude"] # RawGeometry["x"]
    /\ plant.location.latitude = RawGeometry["y"]
    /\ plant.location.longitude = RawGeometry["x"]

(***************************************************************************)
(* C18: every numeric field whose value is missing from the feature parses *)
(* as None and not as 0, except object_id, plant_code and utility_id,      *)
(* which parse as 0; a missing plant_name, utility_name, sector_name or    *)
(* primary_source parses as ''.                                            *)
(***************************************************************************)
C18_MissingNumbersAreAbsent ==
    Parsed =>
        /\ \A k \in DOMAIN NumberFields(plant) :
               k \notin DOMAIN RawAttributes
               => NumberFields(plant)[k] = (IF k \in ZeroDefaultKeys THEN 0 ELSE None)
        /\ ("y" \notin DOMAIN RawGeometry /\ "Latitude" \notin DOMAIN RawAttributes)
           => plant.location.latitude = None
        /\ ("x" \notin DOMAIN RawGeometry /\ "Longitude" \notin DOMAIN RawAttributes)
           => plant.location.longitude = None
        /\ \A k \in DOMAIN DefaultedStrFields(plant) :
               k \notin DOMAIN RawAttributes => DefaultedStrFields(plant)[k] = EmptyStr

(***************************************************************************)
(* C19: whatever the raw feature lacks, the parser can run on it, its      *)
(* result is a PowerPlant, and the step changes neither the feature nor    *)
(* any state of the client.                                                *)
(***************************************************************************)
C19_ParsingNeverFails ==
    /\ [](~Parsed => ENABLED Parse)
    /\ [][/\ DOMAIN plant' = PowerPlantFields
          /\ feature' = feature
          /\ pagevars' = pagevars]_vars

\* a feature with neither attributes nor geometry has been parsed
C19_Witness ==
    /\ feature = EmptyDict
    /\ Parsed
    /\ DOMAIN plant = PowerPlantFields

(***************************************************************************)
(* The filtered queries: how get_plants_by_energy_type and                 *)
(* get_plants_by_state choose the get_power_plants call they make.         *)
(***************************************************************************)
\* how many state names are tried
MaxStates == 2

\* faulty variant of ServiceMappingByType: Other has no service of its own
ServiceMappingByType_NoOther ==
    ("COAL" :> "coal_plants") @@ ("NATURAL_GAS" :> "natural_gas_plants")
    @@ ("NUCLEAR" :> "nuclear_plants") @@ ("HYDRO" :> "hydro_plants")
    @@ ("SOLAR" :> "solar_plants") @@ ("WIND" :> "wind_plants")
    @@ ("GEOTHERMAL" :> "geothermal_plants") @@ ("BATTERY" :> "battery_plants")
    @@ ("CRUDE_OIL" :> "petroleum_plants")

\* service_mapping of get_plants_by_energy_type
ServiceMappingByType ==
    ("COAL" :> "coal_plants") @@ ("NATURAL_GAS" :> "natural_gas_plants")
    @@ ("NUCLEAR" :> "nuclear_plants") @@ ("HYDRO" :> "hydro_plants")
    @@ ("SOLAR" :> "solar_plants") @@ ("WIND" :> "wind_plants")
    @@ ("GEOTHERMAL" :> "geothermal_plants") @@ ("BATTERY" :> "battery_plants")
    @@ ("CRUDE_OIL" :> "petroleum_plants") @@ ("OTHER" :> "other_plants")

\* service_mapping of get_plants_by_state
ServiceMappingByState ==
    ("COAL" :> "coal_plants") @@ ("NATURAL_GAS" :> "natural_gas_plants")
    @@ ("NUCLEAR" :> "nuclear_plants") @@ ("HYDRO" :> "hydro_plants")
    @@ ("SOLAR" :> "solar_plants") @@ ("WIND" :> "wind_plants")
    @@ ("GEOTHERMAL" :> "geothermal_plants") @@ ("BATTERY" :> "battery_plants")
    @@ ("CRUDE_OIL" :> "petroleum_plants") @@ ("OTHER" :> "other_plants")

\* f"StateName = '{state}' OR StateName LIKE '%{state}%'", piece by piece
StateWhereClause(state) ==
    << "StateName = '", state, "' OR StateName LIKE '%", state, "%'" >>

\* the state names tried, full names and abbreviations
StateList == << "Texas", "CA", "Ohio", "NY" >>

StateNames == { StateList[i] : i \in 1..MaxStates }

\* the filtered queries a caller can ask; energy_type of get_plants_by_state
\* is left out when the caller leaves it None
Requests ==
    { [method |-> "get_plants_by_energy_type", energy_type |-> t, limit |-> l] :
        t \in DOMAIN EnergyType, l \in {None} \cup (1..MaxLimit) }
    \cup { [method |-> "get_plants_by_state", state |-> s, energy_type |-> t, limit |-> l] :
        s \in StateNames, t \in DOMAIN EnergyType, l \in {None} \cup (1..MaxLimit) }
    \cup { [method |-> "get_plants_by_state", state |-> s, limit |-> l] :
        s \in StateNames, l \in {None} \cup (1..MaxLimit) }
    \cup { [method |-> "get_renewable_plants", limit |-> l] :
        l \in {None} \cup (1..MaxLimit) }

(***************************************************************************)
(* Vocabulary of the filtered queries' properties.                         *)
(***************************************************************************)
\* the query has made its choice of service
Routed == DOMAIN routed # {}

\* the query asks for one energy type
AsksType(t) == "energy_type" \in DOMAIN request /\ request.energy_type = t

\* the query goes to a service of its own, not to the service of all plants
Dedicated == routed.service \in DOMAIN SERVICES /\ routed.service # "all_plants"

NineTypes ==
    {"COAL", "NATURAL_GAS", "NUCLEAR", "HYDRO", "SOLAR", "WIND", "GEOTHERMAL",
     "BATTERY", "CRUDE_OIL"}

(***************************************************************************)
(* C20: in get_plants_by_energy_type and in get_plants_by_state, a query   *)
(* for an energy type goes to a dedicated service exactly for the nine     *)
(* types Coal, NaturalGas, Nuclear, Hydro, Solar, Wind, Geothermal,        *)
(* Battery and CrudeOil, and not for HydroPumped, Biomass and Other.       *)
(***************************************************************************)
C20_NineDedicatedServices ==
    \A t \in DOMAIN EnergyType :
        (Routed /\ AsksType(t)) => (Dedicated <=> t \in NineTypes)

(***************************************************************************)
(* C20, amended: a query for an energy type goes to a dedicated service    *)
(* exactly for ten types, the nine and Other (service other_plants), and   *)
(* not for HydroPumped and Biomass, in both methods.                       *)
(***************************************************************************)
C20_TenDedicatedServices ==
    \A t \in DOMAIN EnergyType :
        (Routed /\ AsksType(t)) =>
            /\ Dedicated <=> t \in NineTypes \cup {"OTHER"}
            /\ t = "OTHER" => routed.service = "other_plants"
            /\ t \in {"HYDRO_PUMPED", "BIOMASS"} => routed.service = "all_plants"

\* get_plants_by_energy_type(EnergyType.OTHER) has gone to other_plants
C20_Witness ==
    /\ Routed
    /\ AsksType("OTHER")
    /\ request.method = "get_plants_by_energy_type"
    /\ routed.service = "other_plants"

(***************************************************************************)
(* C29: the first page request of every get_power_plants call has          *)
(* resultOffset 0, and every request carries the loop's own offset: a      *)
(* result_offset set by the caller in PowerPlantQueryParams is never sent. *)
(***************************************************************************)
C29_CallerOffsetNeverSent ==
    \A c \in Calls :
        /\ Len(reqs[c]) >= 1 => reqs[c][1].params["resultOffset"] = 0
        /\ pc[c] = "request"
           => reqs[c][Len(reqs[c])].params["resultOffset"] = offset[c]

\* the caller set result_offset, to_dict passed it on, and the first request
\* went out with resultOffset 0
C29_Witness ==
    \E c \in Calls :
        /\ qarg[c] # None
        /\ made.result_offset = 1
        /\ Len(reqs[c]) >= 1
        /\ params[c]["resultOffset"] = 1
        /\ reqs[c][1].params["resultOffset"] = 0

(***************************************************************************)
(* The export scripts: removal of duplicates by plant_code.                *)
(***************************************************************************)
\* how many features the services return to a script, at most
MaxFetched == 3

\* the largest Plant_Code among them
MaxCode == 2

\* the column of to_dataframe's records the scripts remove duplicates by,
\* with the columns that tell two plants apart
ToRecord(p) ==
    [object_id |-> p.object_id, plant_code |-> p.plant_code,
     primary_source |-> p.primary_source]

\* EIAAtlasClient.to_dataframe
ToDataFrame(plants) == [i \in 1..Len(plants) |-> ToRecord(plants[i])]

\* faulty variant of UniquePlants: a later plant replaces the one held
RECURSIVE UniquePlants_LastWins(_, _, _)
UniquePlants_LastWins(plants, i, unique_plants) ==
    IF i > Len(plants) THEN unique_plants
    ELSE LET plant_code == plants[i].plant_code
             held == { k \in 1..Len(unique_plants) : unique_plants[k].plant_code = plant_code }
         IN  UniquePlants_LastWins(plants, i + 1,
                 IF held = {} THEN Append(unique_plants, plants[i])
                 ELSE [k \in 1..Len(unique_plants) |->
                          IF k \in held THEN plants[i] ELSE unique_plants[k]])

\* export_comprehensive_data.py: the loop over all_plants from plant i on;
\* unique_plants is the dict's values in insertion order
RECURSIVE UniquePlants(_, _, _)
UniquePlants(plants, i, unique_plants) ==
    IF i > Len(plants) THEN unique_plants
    ELSE LET plant_code == plants[i].plant_code
             held == { k \in 1..Len(unique_plants) : unique_plants[k].plant_code = plant_code }
         IN  UniquePlants(plants, i + 1,
                 IF held = {} THEN Append(unique_plants, plants[i])
                 ELSE unique_plants)

\* faulty variant of DropDuplicates: keep='last'
RECURSIVE DropDuplicates_KeepLast(_, _)
DropDuplicates_KeepLast(df, i) ==
    IF i > Len(df) THEN << >>
    ELSE LET duplicated == \E j \in (i + 1)..Len(df) : df[j].plant_code = df[i].plant_code
         IN  (IF duplicated THEN << >> ELSE << df[i] >>) \o DropDuplicates_KeepLast(df, i + 1)

\* export_mixed_data.py: df.drop_duplicates(subset=['plant_code'], keep='first'),
\* the rows from row i on: a row is dropped when an earlier row has its plant_code
RECURSIVE DropDuplicates(_, _)
DropDuplicates(df, i) ==
    IF i > Len(df) THEN << >>
    ELSE LET duplicated == \E j \in 1..(i - 1) : df[j].plant_code = df[i].plant_code
         IN  (IF duplicated THEN << >> ELSE << df[i] >>) \o DropDuplicates(df, i + 1)

\* the feature at place i of what the services returned: OBJECTID tells the
\* plants apart, Plant_Code is there (code > 0) or missing (code = 0)
FetchedFeature(i, code) ==
    [attributes |->
        IF code = 0 THEN [k \in {"OBJECTID"} |-> i]
        ELSE [OBJECTID |-> i, Plant_Code |-> code]]

\* the lists of exactly n features the services can return
RECURSIVE FetchedLists(_)
FetchedLists(n) ==
    IF n = 0 THEN {<< >>}
    ELSE { Append(fs, FetchedFeature(n, code)) : fs \in FetchedLists(n - 1), code \in 0..MaxCode }

ExportRequests ==
    { [method |-> m, features |-> fs] :
        m \in {"export_comprehensive_data", "export_mixed_data"},
        fs \in UNION { FetchedLists(n) : n \in 0..MaxFetched } }

ExportInit ==
    /\ PageIdle
    /\ primary_source = << >>
    /\ energy_type = "unset"
    /\ feature = << >>
    /\ plant = << >>
    /\ request \in ExportRequests
    /\ routed = << >>
    /\ outcome = << >>
    /\ all_renewable = << >>
    /\ renewable_pos = 0

\* export_comprehensive_data, from the plants collected to final_plants
ExportComprehensiveData ==
    /\ request.method = "export_comprehensive_data"
    /\ outcome = << >>
    /\ LET all_plants_ == ParseAll(request.features)
       IN  outcome' = [all_plants |-> all_plants_,
                       final_plants |-> UniquePlants(all_plants_, 1, << >>)]
    /\ UNCHANGED << pagevars, primary_source, energy_type, feature, plant, request, routed,
                    all_renewable, renewable_pos >>

\* export_mixed_data, from the plants collected to df_unique
ExportMixedData ==
    /\ request.method = "export_mixed_data"
    /\ outcome = << >>
    /\ LET all_plants_ == ParseAll(request.features)
           df == ToDataFrame(all_plants_)
       IN  outcome' = [all_plants |-> df, final_plants |-> DropDuplicates(df, 1)]
    /\ UNCHANGED << pagevars, primary_source, energy_type, feature, plant, request, routed,
                    all_renewable, renewable_pos >>

ExportNext == ExportComprehensiveData \/ ExportMixedData

ExportSpec == ExportInit /\ [][ExportNext]_vars

(***************************************************************************)
(* Vocabulary of the properties of the removal of duplicates.              *)
(***************************************************************************)
\* the method asked has finished
Done == DOMAIN outcome # {}

\* the places of the input whose plant_code no earlier place has
FirstPlaces(input) ==
    { i \in 1..Len(input) : \A j \in 1..(i - 1) : input[j].plant_code # input[i].plant_code }

\* the k-th smallest member of a set of places
KthPlace(places, k) == CHOOSE i \in places : Cardinality({ j \in places : j <= i }) = k

(***************************************************************************)
(* C23: the removal of duplicates returns the subsequence of its input     *)
(* that holds, for each distinct plant_code, its first occurrence, in      *)
(* input order: no two output records share a plant_code, every plant_code *)
(* of the input is in the output, and the record kept is the first seen.   *)
(***************************************************************************)
C23_FirstOccurrenceWins ==
    Done =>
        LET input == outcome.all_plants
            output == outcome.final_plants
        IN  /\ Len(output) = Cardinality(FirstPlaces(input))
            /\ \A k \in 1..Len(output) : output[k] = input[KthPlace(FirstPlaces(input), k)]
            /\ \A k, l \in 1..Len(output) : k # l => output[k].plant_code # output[l].plant_code
            /\ \A i \in 1..Len(input) : \E k \in 1..Len(output) : output[k].plant_code = input[i].plant_code

\* an input whose first and third record share a plant_code, with another
\* plant_code between them
C23_Witness ==
    /\ Done
    /\ Len(outcome.all_plants) = 3
    /\ outcome.all_plants[1].plant_code = outcome.all_plants[3].plant_code
    /\ outcome.all_plants[1].plant_code # outcome.all_plants[2].plant_code
    /\ outcome.final_plants = SubSeq(outcome.all_plants, 1, 2)

(***************************************************************************)
(* C30: every feature without Plant_Code parses to plant_code 0, so of     *)
(* all the plants without Plant_Code in an input, the removal of           *)
(* duplicates keeps the first and drops every other one.                   *)
(***************************************************************************)
C30_PlantsWithoutCodeCollapse ==
    Done =>
        LET codeless == { i \in 1..Len(request.features) :
                            "Plant_Code" \notin DOMAIN request.features[i]["attributes"] }
            kept == { k \in 1..Len(outcome.final_plants) : outcome.final_plants[k].plant_code = 0 }
        IN  /\ \A i \in codeless : outcome.all_plants[i].plant_code = 0
            /\ codeless # {} =>
                  /\ Cardinality(kept) = 1
                  /\ \A k \in kept :
                        outcome.final_plants[k].object_id
                          = request.features[KthPlace(codeless, 1)]["attributes"]["OBJECTID"]

\* two different plants without Plant_Code came in, one came out
C30_Witness ==
    /\ Done
    /\ Len(request.features) >= 2
    /\ \A i \in 1..2 : "Plant_Code" \notin DOMAIN request.features[i]["attributes"]
    /\ outcome.all_plants[1].object_id # outcome.all_plants[2].object_id
    /\ Cardinality({ k \in 1..Len(outcome.final_plants) : outcome.final_plants[k].plant_code = 0 }) = 1

(***************************************************************************)
(* filters.py: DataAggregator.calculate_renewable_percentage.              *)
(* A float of the renewable_percentage column is [kind, value]: kind       *)
(* "num" with value in hundredths of a percent, or "nan", "inf", "-inf"    *)
(* with value 0.  A missing total_mw (NaN in the DataFrame) is None.       *)
(***************************************************************************)
\* how many rows the DataFrame has, at most
MaxRows == 2

RECURSIVE SumColumn(_, _, _)
\* groupby('state')[column].sum() for one state: NaN cells are skipped
SumColumn(df, state, column) ==
    IF df = << >> THEN 0
    ELSE LET row == df[Len(df)]
             cell == IF row.state = state /\ row[column] # None THEN row[column] ELSE 0
         IN  SumColumn(SubSeq(df, 1, Len(df) - 1), state, column) + cell

\* (renewable / total * 100).round(2) on float64: a division by zero raises
\* nothing, it gives NaN for 0/0 and an infinity otherwise; totals here are
\* never negative
RoundedPercent(renewable, total) ==
    IF total = 0
    THEN [kind |-> IF renewable = 0 THEN "nan" ELSE IF renewable > 0 THEN "inf" ELSE "-inf",
          value |-> 0]
    ELSE LET q == (renewable * 10000) \div total
             r == (renewable * 10000) % total
         IN  [kind |-> "num",
              value |-> IF 2 * r > total \/ (2 * r = total /\ q % 2 = 1) THEN q + 1 ELSE q]

\* one row of state_summary
StateSummaryRow(df, state) ==
    LET total == SumColumn(df, state, "total_mw")
        renewable == SumColumn(df, state, "renewable_capacity_mw")
    IN  [state |-> state, total_mw |-> total, renewable_capacity_mw |-> renewable,
         renewable_percentage |-> RoundedPercent(renewable, total)]

\* sort_values(ascending=False) may put a before b: NaN goes last
MayPrecede(a, b) ==
    \/ b.kind = "nan"
    \/ a.kind = "inf" /\ b.kind # "nan"
    \/ b.kind = "-inf" /\ a.kind # "nan"
    \/ a.kind = "num" /\ b.kind = "num" /\ a.value >= b.value

\* the results calculate_renewable_percentage can return: the rows of
\* state_summary in an order sort_values can give (equal keys in any order)
StateSummaries(df) ==
    LET states == { df[i].state : i \in 1..Len(df) }
        rows == { StateSummaryRow(df, st) : st \in states }
        n == Cardinality(states)
    IN  { ss \in [1..n -> rows] :
            /\ \A i, j \in 1..n : i # j => ss[i] # ss[j]
            /\ \A i, j \in 1..n :
                 i < j => MayPrecede(ss[i].renewable_percentage, ss[j].renewable_percentage) }

\* the rows a DataFrame can hold: the columns the method reads
DataFrameRows ==
    { [state |-> st, total_mw |-> t, renewable_capacity_mw |-> r] :
        st \in {"TX", "CA"}, t \in {None, 0, 3}, r \in {0, 1, 3} }

RECURSIVE DataFrames(_)
\* the DataFrames of exactly n rows
DataFrames(n) ==
    IF n = 0 THEN {<< >>}
    ELSE { Append(df, row) : df \in DataFrames(n - 1), row \in DataFrameRows }

PercentageRequests ==
    { [method |-> "calculate_renewable_percentage", df |-> df] :
        df \in UNION { DataFrames(n) : n \in 1..MaxRows } }

PercentageInit ==
    /\ PageIdle
    /\ primary_source = << >>
    /\ energy_type = "unset"
    /\ feature = << >>
    /\ plant = << >>
    /\ request \in PercentageRequests
    /\ routed = << >>
    /\ outcome = << >>
    /\ all_renewable = << >>
    /\ renewable_pos = 0

\* DataAggregator.calculate_renewable_percentage(df)
CalculateRenewablePercentage ==
    /\ request.method = "calculate_renewable_percentage"
    /\ outcome = << >>
    /\ \E ss \in StateSummaries(request.df) : outcome' = [state_summary |-> ss]
    /\ UNCHANGED << pagevars, primary_source, energy_type, feature, plant, request, routed,
                    all_renewable, renewable_pos >>

PercentageSpec == PercentageInit /\ [][CalculateRenewablePercentage]_vars

(***************************************************************************)
(* C24: for every state group whose total_mw sum is zero the method gives  *)
(* NaN, never 0, an infinity or an error, whatever the group's renewable   *)
(* sum; for a group with a non-zero total it gives renewable sum / total   *)
(* sum x 100 (to the two decimals kept).                                   *)
(***************************************************************************)
C24_ZeroTotalGivesNaN ==
    Done =>
        \A k \in 1..Len(outcome.state_summary) :
            LET row == outcome.state_summary[k]
                pct == row.renewable_percentage
            IN  /\ row.total_mw = 0 => pct.kind = "nan"
                /\ row.total_mw # 0 =>
                     /\ pct.kind = "num"
                     /\ 2 * (pct.value * row.total_mw - row.renewable_capacity_mw * 10000) <= row.total_mw
                     /\ 2 * (row.renewable_capacity_mw * 10000 - pct.value * row.total_mw) <= row.total_mw

(***************************************************************************)
(* filters.py: PowerPlantFilter.filter_by_capacity_range.                  *)
(***************************************************************************)
\* how many plants the list to filter holds, at most
MaxPlants == 2

\* an attribute value that is neither None nor a number: the bound method
\* get_renewable_capacity, the class of the object
NonNumber == -2

\* the names getattr finds on a PowerPlantCapacity besides its fields
OtherAttributes == {"get_renewable_capacity", "__class__"}

\* getattr(plant.capacity, capacity_type, None)
GetAttr(capacity, name) ==
    IF name \in DOMAIN capacity THEN capacity[name]
    ELSE IF name \in OtherAttributes THEN NonNumber
    ELSE None

RECURSIVE CapacityLoop(_, _, _, _, _, _)
\* the loop of filter_by_capacity_range from plant i on; comparing a
\* non-number with a bound raises TypeError
CapacityLoop(plants, i, min_capacity, max_capacity, capacity_type, filtered) ==
    IF i > Len(plants) THEN [filtered |-> filtered]
    ELSE LET capacity_value == GetAttr(plants[i].capacity, capacity_type)
             continue == CapacityLoop(plants, i + 1, min_capacity, max_capacity,
                                      capacity_type, filtered)
         IN  IF capacity_value = None THEN continue
             ELSE IF min_capacity # None /\ capacity_value = NonNumber
                  THEN [raised |-> "TypeError"]
             ELSE IF min_capacity # None /\ capacity_value < min_capacity THEN continue
             ELSE IF max_capacity # None /\ capacity_value = NonNumber
                  THEN [raised |-> "TypeError"]
             ELSE IF max_capacity # None /\ capacity_value > max_capacity THEN continue
             ELSE CapacityLoop(plants, i + 1, min_capacity, max_capacity, capacity_type,
                               Append(filtered, plants[i]))

\* PowerPlantFilter.filter_by_capacity_range
FilterByCapacityRange(plants, min_capacity, max_capacity, capacity_type) ==
    CapacityLoop(plants, 1, min_capacity, max_capacity, capacity_type, << >>)

\* the plant at place i of a list: parsed from a feature with or without
\* Total_MW and Solar_MW (None: without)
CapacityPlant(i, total, solar) ==
    LET keys == {"OBJECTID"} \cup (IF total # None THEN {"Total_MW"} ELSE {})
                             \cup (IF solar # None THEN {"Solar_MW"} ELSE {})
    IN  ParseFeature([attributes |->
            [k \in keys |-> CASE k = "OBJECTID" -> i
                              [] k = "Total_MW" -> total
                              [] k = "Solar_MW" -> solar]])

RECURSIVE PlantLists(_)
\* the lists of exactly n plants
PlantLists(n) ==
    IF n = 0 THEN {<< >>}
    ELSE { Append(ps, CapacityPlant(n, t, so)) :
             ps \in PlantLists(n - 1), t \in {None, 0, 2, 5}, so \in {None, 1} }

CapacityRequests ==
    { [method |-> "filter_by_capacity_range", plants |-> ps, min_capacity |-> lo,
       max_capacity |-> hi, capacity_type |-> ct] :
        ps \in UNION { PlantLists(n) : n \in 0..MaxPlants },
        lo \in {None, 0, 2}, hi \in {None, 1, 2},
        ct \in {"total_mw", "solar_mw", "tidal_mw", "get_renewable_capacity"} }

CapacityInit ==
    /\ PageIdle
    /\ primary_source = << >>
    /\ energy_type = "unset"
    /\ feature = << >>
    /\ plant = << >>
    /\ request \in CapacityRequests
    /\ routed = << >>
    /\ outcome = << >>
    /\ all_renewable = << >>
    /\ renewable_pos = 0

\* a call of PowerPlantFilter.filter_by_capacity_range
FilterCapacity ==
    /\ request.method = "filter_by_capacity_range"
    /\ outcome = << >>
    /\ outcome' = FilterByCapacityRange(request.plants, request.min_capacity,
                                        request.max_capacity, request.capacity_type)
    /\ UNCHANGED << pagevars, primary_source, energy_type, feature, plant, request, routed,
                    all_renewable, renewable_pos >>

CapacitySpec == CapacityInit /\ [][FilterCapacity]_vars

(***************************************************************************)
(* Vocabulary of the capacity filter's property.                           *)
(***************************************************************************)
\* the fields of a PowerPlantCapacity
CapacityFields ==
    {"total_mw", "install_mw", "coal_mw", "natural_gas_mw", "nuclear_mw", "hydro_mw",
     "hydro_pumped_mw", "solar_mw", "wind_mw", "geothermal_mw", "biomass_mw",
     "battery_mw", "crude_oil_mw", "other_mw"}

\* the plant's field is present and within the bounds asked
WithinRange(p) ==
    LET value == p.capacity[request.capacity_type]
    IN  /\ value # None
        /\ request.min_capacity # None => request.min_capacity <= value
        /\ request.max_capacity # None => value <= request.max_capacity

(***************************************************************************)
(* C26: filter_by_capacity_range returns, in input order, exactly the      *)
(* plants whose field named by capacity_type is present and within the     *)
(* bounds set; when capacity_type names no capacity field it returns the   *)
(* empty list, and it never raises.                                        *)
(***************************************************************************)
C26_CapacityRangeFilter ==
    Done =>
        /\ DOMAIN outcome = {"filtered"}
        /\ outcome.filtered =
             IF request.capacity_type \in CapacityFields
             THEN SelectSeq(request.plants, WithinRange)
             ELSE << >>

(***************************************************************************)
(* The parser on features that hold JSON nulls, and the two derived        *)
(* properties of the plant parsed.                                         *)
(***************************************************************************)
\* plant.primary_energy_type and plant.is_renewable as a caller reads them;
\* None.lower() raises AttributeError
DerivedProperties(p) ==
    IF p.primary_source = None THEN [raised |-> "AttributeError"]
    ELSE [primary_energy_type |-> PrimaryEnergyType(StrOf(p.primary_source)),
          is_renewable |-> IsRenewable(StrOf(p.primary_source))]

\* the attribute dicts with all keys, at most MaxLack of them null
NullAttrDicts ==
    { [k \in AttrKeys |-> IF k \in S THEN None ELSE SampleAttrs[k]] : S \in KeySets(MaxLack) }

\* the raw features with nulls: in attribute values, for 'attributes', for
\* 'geometry'
NullFeatures ==
    { [attributes |-> a, geometry |-> g] :
        a \in NullAttrDicts \cup {NullDict},
        g \in {NullDict, SampleGeometry} }
    \cup { [k \in {"attributes"} |-> a] : a \in NullAttrDicts }

NullParseInit ==
    /\ PageIdle
    /\ primary_source = << >>
    /\ energy_type = "unset"
    /\ feature \in NullFeatures
    /\ plant = << >>
    /\ request = << >>
    /\ routed = << >>
    /\ outcome = << >>
    /\ all_renewable = << >>
    /\ renewable_pos = 0

\* the plant parsed is read: to_dataframe's plant.primary_energy_type.value
\* and plant.is_renewable
ReadDerived ==
    /\ DOMAIN plant # {}
    /\ "raised" \notin DOMAIN plant
    /\ outcome = << >>
    /\ outcome' = DerivedProperties(plant)
    /\ UNCHANGED << pagevars, primary_source, energy_type, feature, plant, request, routed,
                    all_renewable, renewable_pos >>

NullParseNext == Parse \/ ReadDerived

NullParseSpec == NullParseInit /\ [][NullParseNext]_vars

(***************************************************************************)
(* C27: an attribute present with value null parses as if its key were     *)
(* absent (0 for OBJECTID, Plant_Code, Utility_ID; '' for Plant_Name,      *)
(* Utility_Name, Sector_Name, PrimSource), a null geometry falls back to   *)
(* the attribute coordinates, and neither parsing such a feature nor       *)
(* reading primary_energy_type and is_renewable of the plant raises.       *)
(***************************************************************************)
C27_NullParsesAsAbsent ==
    /\ Parsed =>
         /\ DOMAIN plant = PowerPlantFields
         /\ \A k \in ZeroDefaultKeys :
                feature["attributes"][k] = None => NumberFields(plant)[k] = 0
         /\ \A k \in DOMAIN DefaultedStrFields(plant) :
                feature["attributes"][k] = None => DefaultedStrFields(plant)[k] = EmptyStr
         /\ ("geometry" \in DOMAIN feature /\ IsNull(feature["geometry"])
             /\ feature["attributes"]["Latitude"] # None
             /\ feature["attributes"]["Longitude"] # None)
            => /\ plant.location.latitude = feature["attributes"]["Latitude"]
               /\ plant.location.longitude = feature["attributes"]["Longitude"]
    /\ Done => DOMAIN outcome = {"primary_energy_type", "is_renewable"}

(***************************************************************************)
(* The filtered queries run: get_plants_by_energy_type,                    *)
(* get_plants_by_state and get_renewable_plants, each with the             *)
(* get_power_plants calls it makes (call 1, one after the other) against   *)
(* the feature server.                                                     *)
(***************************************************************************)
\* the servers the filtered queries are run against
RouteServers ==
    { [mode |-> "honest", n |-> n, m |-> m] : n \in 0..MaxN, m \in 1..MaxM }
    \cup { [mode |-> "any", n |-> 0, m |-> 0] }

RouteInit ==
    /\ server \in RouteServers
    /\ CallsIdle
    /\ primary_source = << >>
    /\ energy_type = "unset"
    /\ feature = << >>
    /\ plant = << >>
    /\ request \in Requests
    /\ routed = << >>
    /\ outcome = << >>
    /\ all_renewable = << >>
    /\ renewable_pos = 0

\* the get_power_plants call get_plants_by_energy_type makes for type t;
\* filter tells whether the result is then filtered by primary_energy_type
RouteByType(t, lim) ==
    IF t \in DOMAIN ServiceMappingByType
    THEN [service |-> ServiceMappingByType[t],
          query_params |-> None, limit |-> lim, filter |-> FALSE]
    ELSE [service |-> "all_plants",
          query_params |-> None, limit |-> lim, filter |-> TRUE]

\* self.get_power_plants(svc, q, lim) is entered as call 1; given tells
\* whether a query_params object q is passed
StartCall(svc, given, q, lim) ==
    /\ service' = [service EXCEPT ![1] = svc]
    /\ qarg' = [qarg EXCEPT ![1] = IF given THEN 0 ELSE None]
    /\ heap' = IF given THEN [heap EXCEPT ![0] = q] ELSE heap
    /\ made' = IF given THEN q ELSE made
    /\ limit' = [limit EXCEPT ![1] = lim]
    /\ pc' = [pc EXCEPT ![1] = "start"]
    /\ qref' = [qref EXCEPT ![1] = None]
    /\ url' = [url EXCEPT ![1] = << >>]
    /\ params' = [params EXCEPT ![1] = EmptyDict]
    /\ all_plants' = [all_plants EXCEPT ![1] = << >>]
    /\ offset' = [offset EXCEPT ![1] = 0]
    /\ batch_size' = [batch_size EXCEPT ![1] = 0]
    /\ response' = [response EXCEPT ![1] = NoResponse]
    /\ result' = [result EXCEPT ![1] = << >>]
    /\ exc' = [exc EXCEPT ![1] = "none"]
    /\ reqs' = [reqs EXCEPT ![1] = << >>]
    /\ wire' = [wire EXCEPT ![1] = NoExchange]
    /\ pages' = [pages EXCEPT ![1] = << >>]
    /\ UNCHANGED server

\* plant.primary_energy_type of a parsed plant
PlantType(p) == PrimaryEnergyType(StrOf(p.primary_source))

\* [plant for plant in all_plants if plant.primary_energy_type == energy_type]
FilterByType(plants, t) ==
    LET Matches(p) == PlantType(p) = t
    IN  SelectSeq(plants, Matches)

\* what get_plants_by_energy_type returns from the result of its call
PlantsOfCall(t) == IF routed.filter THEN FilterByType(result[1], t) ELSE result[1]

\* get_plants_by_energy_type, up to the entry of its get_power_plants call
GetPlantsByEnergyType ==
    /\ request.method = "get_plants_by_energy_type"
    /\ routed = << >>
    /\ routed' = RouteByType(request.energy_type, request.limit)
    /\ StartCall(routed'.service, FALSE, NewQueryParams, request.limit)
    /\ UNCHANGED << primary_source, energy_type, feature, plant, request, outcome,
                    all_renewable, renewable_pos >>

\* get_plants_by_energy_type, from the end of its get_power_plants call
ReturnByEnergyType ==
    /\ request.method = "get_plants_by_energy_type"
    /\ DOMAIN routed # {}
    /\ outcome = << >>
    /\ pc[1] \in {"returned", "raised"}
    /\ outcome' = IF pc[1] = "raised" THEN [raised |-> exc[1]]
                  ELSE [plants |-> PlantsOfCall(request.energy_type)]
    /\ UNCHANGED << pagevars, primary_source, energy_type, feature, plant, request, routed,
                    all_renewable, renewable_pos >>

\* get_plants_by_state, up to the entry of its get_power_plants call
GetPlantsByState ==
    /\ request.method = "get_plants_by_state"
    /\ routed = << >>
    /\ LET query_params == [NewQueryParams EXCEPT !.where_clause = StateWhereClause(request.state)]
           chosen == IF "energy_type" \in DOMAIN request
                     THEN Get(ServiceMappingByState, request.energy_type, "all_plants")
                     ELSE "all_plants"
       IN  /\ routed' = [service |-> chosen, query_params |-> query_params,
                         limit |-> request.limit, filter |-> FALSE]
           /\ StartCall(chosen, TRUE, query_params, request.limit)
    /\ UNCHANGED << primary_source, energy_type, feature, plant, request, outcome,
                    all_renewable, renewable_pos >>

\* faulty variant of ReturnByState: the result is filtered by energy type
ReturnByState_Filtered ==
    /\ request.method = "get_plants_by_state"
    /\ DOMAIN routed # {}
    /\ outcome = << >>
    /\ pc[1] \in {"returned", "raised"}
    /\ outcome' = IF pc[1] = "raised" THEN [raised |-> exc[1]]
                  ELSE [plants |-> IF "energy_type" \in DOMAIN request
                                   THEN FilterByType(result[1], request.energy_type)
                                   ELSE result[1]]
    /\ UNCHANGED << pagevars, primary_source, energy_type, feature, plant, request, routed,
                    all_renewable, renewable_pos >>

\* get_plants_by_state, from the end of its get_power_plants call
ReturnByState ==
    /\ request.method = "get_plants_by_state"
    /\ DOMAIN routed # {}
    /\ outcome = << >>
    /\ pc[1] \in {"returned", "raised"}
    /\ outcome' = IF pc[1] = "raised" THEN [raised |-> exc[1]]
                  ELSE [plants |-> result[1]]
    /\ UNCHANGED << pagevars, primary_source, energy_type, feature, plant, request, routed,
                    all_renewable, renewable_pos >>

\* renewable_types of get_renewable_plants
RenewableTypes == << "SOLAR", "WIND", "HYDRO", "GEOTHERMAL", "BIOMASS" >>

\* all_renewable[:limit]
UpTo(plants, lim) == SubSeq(plants, 1, IF lim <= Len(plants) THEN lim ELSE Len(plants))

\* get_renewable_plants, up to the first get_plants_by_energy_type call
GetRenewablePlants ==
    /\ request.method = "get_renewable_plants"
    /\ renewable_pos = 0
    /\ outcome = << >>
    /\ renewable_pos' = 1
    /\ all_renewable' = << >>
    /\ routed' = RouteByType(RenewableTypes[1], None)
    /\ StartCall(routed'.service, FALSE, NewQueryParams, None)
    /\ UNCHANGED << primary_source, energy_type, feature, plant, request, outcome >>

\* get_renewable_plants, from the return of one get_plants_by_energy_type
\* call to the next call or to the return
RenewableCollect ==
    /\ request.method = "get_renewable_plants"
    /\ renewable_pos >= 1
    /\ outcome = << >>
    /\ pc[1] = "returned"
    /\ LET grown == all_renewable \o PlantsOfCall(RenewableTypes[renewable_pos])
           break == Truthy(request.limit) /\ Len(grown) >= request.limit
       IN  /\ all_renewable' = grown
           /\ IF break \/ renewable_pos = Len(RenewableTypes)
              THEN /\ outcome' = [plants |-> IF Truthy(request.limit)
                                             THEN UpTo(grown, request.limit) ELSE grown]
                   /\ UNCHANGED << pagevars, routed, renewable_pos >>
              ELSE /\ renewable_pos' = renewable_pos + 1
                   /\ routed' = RouteByType(RenewableTypes[renewable_pos + 1], None)
                   /\ StartCall(routed'.service, FALSE, NewQueryParams, None)
                   /\ UNCHANGED outcome
    /\ UNCHANGED << primary_source, energy_type, feature, plant, request >>

\* get_renewable_plants: a get_power_plants call raised, nothing catches it
RenewableRaises ==
    /\ request.method = "get_renewable_plants"
    /\ renewable_pos >= 1
    /\ outcome = << >>
    /\ pc[1] = "raised"
    /\ outcome' = [raised |-> exc[1]]
    /\ UNCHANGED << pagevars, primary_source, energy_type, feature, plant, request, routed,
                    all_renewable, renewable_pos >>

RouteNext ==
    \/ GetPlantsByEnergyType
    \/ ReturnByEnergyType
    \/ GetPlantsByState
    \/ ReturnByState
    \/ GetRenewablePlants
    \/ RenewableCollect
    \/ RenewableRaises
    \/ Next

RouteSpec == RouteInit /\ [][RouteNext]_vars

(***************************************************************************)
(* Vocabulary of the properties of the filtered queries run.               *)
(***************************************************************************)
\* the method asked has returned a list of plants
Returned == Done /\ "plants" \in DOMAIN outcome

\* the energy types without a service of their own
UnservedTypes == {"HYDRO_PUMPED", "BIOMASS"}

\* the plants of the honest server's dataset, parsed, in server order
DatasetPlants == [i \in 1..server.n |-> ParseFeature(Feature(i))]

(***************************************************************************)
(* C21: get_plants_by_energy_type(T, limit) for a type T without a         *)
(* dedicated service fetches the whole of all_plants, whatever the limit,  *)
(* and filters it by the classifier: every plant of the dataset whose      *)
(* primary_energy_type is T is in the result.                              *)
(***************************************************************************)
C21_FilterSeesWholeDataset ==
    (/\ Returned
     /\ request.method = "get_plants_by_energy_type"
     /\ request.energy_type \in UnservedTypes
     /\ server.mode = "honest")
    => \A i \in 1..server.n :
           PlantType(DatasetPlants[i]) = request.energy_type
           => \E k \in 1..Len(outcome.plants) : outcome.plants[k] = DatasetPlants[i]

(***************************************************************************)
(* C22: every plant get_plants_by_energy_type(T) returns has               *)
(* primary_energy_type T, whatever T and whatever the service answers.     *)
(***************************************************************************)
C22_ResultIsOfTypeAsked ==
    (Returned /\ request.method = "get_plants_by_energy_type")
    => \A k \in 1..Len(outcome.plants) : PlantType(outcome.plants[k]) = request.energy_type

(***************************************************************************)
(* C25: every plant get_renewable_plants returns is renewable (its         *)
(* primary_energy_type is Solar, Wind, Hydro, Geothermal or Biomass),      *)
(* whatever the limit and whatever the services answer.                    *)
(***************************************************************************)
C25_RenewablePlantsAreRenewable ==
    (Returned /\ request.method = "get_renewable_plants")
    => \A k \in 1..Len(outcome.plants) :
           PlantType(outcome.plants[k]) \in {"SOLAR", "WIND", "HYDRO", "GEOTHERMAL", "BIOMASS"}

====
